---------------------------- MODULE Spec2Model ----------------------------
(***************************************************************************)
(* Model of the synthetic order book engine of wallettrack                 *)
(* (src/app/services/synthetics_service.py): leg validation, the liquidity *)
(* consumer, the ask and bid chain pricers and the orchestrator            *)
(* create_synthetic_orderbook with its fan-out of leg order-book fetches.  *)
(*                                                                         *)
(* Numbers.  The code computes in binary floating point.  The model        *)
(* computes in exact rational arithmetic: a number is a pair <<n, d>> with *)
(* d > 0 and gcd(n, d) = 1.  round(x, 8) is modelled by Round8, which      *)
(* yields the pair <<integer part, eight decimal digits>>.                 *)
(*                                                                         *)
(* Strings.  A formatted message (an f-string) is the sequence of its      *)
(* fragments, e.g. f"Leg {i+1}: side is required" is                       *)
(* <<"Leg ", "1", ": ", "side is required">> for i = 0, and "" is <<>>.    *)
(***************************************************************************)
EXTENDS Integers, Sequences, FiniteSets, TLC

VARIABLES
    \* ---- the service object and one create_synthetic_orderbook request
    commission_bps,  \* self.commission_bps: exchange -> basis points
    legs,            \* the caller's leg list of the request in progress
    depthArg,        \* the `depth` argument the caller passed
    depth,           \* the local `depth` of the request (after the clamp)
    pc,              \* "idle" | "fetching" | "done": position of the request
    fetch,           \* per leg: Pending or what gather holds for its fetch
    fetchCalls,      \* the fetch_leg_orderbook calls issued: [exchange, symbol, limit]
    result,          \* what the request gave its caller (a response or a raise)
    \* ---- validate_legs applied to an input
    vLegs, vResult,
    \* ---- consume_levels_for_amount applied to an input
    cLevels, cTarget, cResult,
    \* ---- calculate_synthetic_asks and calculate_synthetic_bids applied to an input
    pLegsData, pDepth, pAsks, pBids,
    \* ---- extract_currencies applied to an input
    xSymbol, xResult,
    \* ---- derive_synthetic_pair applied to an input
    dLegs, dResult,
    \* ---- calculate_commission_factor applied to an input
    fExchange, fResult,
    \* ---- two create_synthetic_orderbook requests on the one service object
    requests,        \* request id -> the locals of that request
    \* ---- POST /api/synthetics/orderbook applied to a request
    eRequest, eResponse

orchVars == <<commission_bps, legs, depthArg, depth, pc, fetch, fetchCalls, result>>
valVars  == <<vLegs, vResult>>
conVars  == <<cLevels, cTarget, cResult>>
priVars  == <<pLegsData, pDepth, pAsks, pBids>>
symVars  == <<xSymbol, xResult>>
derVars  == <<dLegs, dResult>>
facVars  == <<fExchange, fResult>>
\* The variables of the harnesses other than those of validate_legs,
\* consume_levels_for_amount and the pricers.
endVars  == <<eRequest, eResponse>>
moreVars == <<symVars, derVars, facVars, requests, endVars>>
vars     == <<orchVars, valVars, conVars, priVars, moreVars>>

\* The value of a result variable before its operation has been applied.
NotCalled == [called |-> FALSE]

-----------------------------------------------------------------------------
(* Exact rational arithmetic standing for the code's float arithmetic.     *)

Abs(a) == IF a < 0 THEN -a ELSE a

RECURSIVE Gcd(_, _)
Gcd(a, b) == IF b = 0 THEN a ELSE Gcd(b, a % b)

\* n/d in lowest terms, d > 0.
Rat(n, d) ==
    LET g == Gcd(Abs(n), Abs(d))
        s == IF d < 0 THEN -1 ELSE 1
    IN  <<(s * n) \div g, (s * d) \div g>>

RInt(n) == <<n, 1>>
Zero == RInt(0)
One == RInt(1)

RMul(a, b) ==
    LET g1 == Gcd(Abs(a[1]), b[2])
        g2 == Gcd(Abs(b[1]), a[2])
    IN  <<(a[1] \div g1) * (b[1] \div g2), (a[2] \div g2) * (b[2] \div g1)>>

\* a / b for b # 0.
RDiv(a, b) ==
    IF b[1] < 0 THEN RMul(a, <<-b[2], -b[1]>>) ELSE RMul(a, <<b[2], b[1]>>)

RAdd(a, b) ==
    LET g == Gcd(a[2], b[2])
    IN  Rat(a[1] * (b[2] \div g) + b[1] * (a[2] \div g), (a[2] \div g) * b[2])

RNeg(a) == <<-a[1], a[2]>>
RSub(a, b) == RAdd(a, RNeg(b))

RLt(a, b) ==
    LET g == Gcd(a[2], b[2])
    IN  a[1] * (b[2] \div g) < b[1] * (a[2] \div g)

RLe(a, b) == ~RLt(b, a)

\* Python's min(a, b): b when b < a, else a.
RMin(a, b) == IF RLt(b, a) THEN b ELSE a

-----------------------------------------------------------------------------
(* SyntheticsService.__init__                                              *)

\* self.exchange_services: the supported venues.
exchange_services == {"binance", "cointr", "whitebit", "okx"}

max_legs == 6
max_depth == 100

BINANCE_COMMISSION_BPS == 10
COINTR_COMMISSION_BPS == 15
WHITEBIT_COMMISSION_BPS == 10
\* config.py sets no OKX rate; the model takes the 10 bps the service
\* falls back to for an exchange without a rate.
OKX_COMMISSION_BPS == 10

InitCommissionBps ==
    [e \in exchange_services |->
        CASE e = "binance"  -> BINANCE_COMMISSION_BPS
          [] e = "cointr"   -> COINTR_COMMISSION_BPS
          [] e = "whitebit" -> WHITEBIT_COMMISSION_BPS
          [] e = "okx"      -> OKX_COMMISSION_BPS]

-----------------------------------------------------------------------------
(* validate_legs                                                           *)

\* "k" in leg
HasKey(leg, k) == k \in DOMAIN leg

\* The required fields the leg lacks.
MissingFields(leg) == {"exchange", "symbol", "side"} \ DOMAIN leg

\* Mutant of LegError: the value of `side` is not checked.
LegError_SideValueUnchecked(leg, i) ==
    IF ~HasKey(leg, "exchange") THEN <<"Leg ", ToString(i + 1), ": ", "exchange is required">>
    ELSE IF ~HasKey(leg, "symbol") THEN <<"Leg ", ToString(i + 1), ": ", "symbol is required">>
    ELSE IF ~HasKey(leg, "side") THEN <<"Leg ", ToString(i + 1), ": ", "side is required">>
    ELSE IF leg.exchange \notin exchange_services
        THEN <<"Leg ", ToString(i + 1), ": ", "unsupported exchange '", leg.exchange, "'">>
    ELSE <<>>

\* Mutant of LegError: the message carries enumerate's 0-based index.
LegError_ZeroBased(leg, i) ==
    IF ~HasKey(leg, "exchange") THEN <<"Leg ", ToString(i), ": ", "exchange is required">>
    ELSE IF ~HasKey(leg, "symbol") THEN <<"Leg ", ToString(i), ": ", "symbol is required">>
    ELSE IF ~HasKey(leg, "side") THEN <<"Leg ", ToString(i), ": ", "side is required">>
    ELSE IF leg.exchange \notin exchange_services
        THEN <<"Leg ", ToString(i), ": ", "unsupported exchange '", leg.exchange, "'">>
    ELSE IF leg.side \notin {"buy", "sell"}
        THEN <<"Leg ", ToString(i), ": ", "side must be 'buy' or 'sell'">>
    ELSE <<>>

\* The verdict on leg number i+1 (i is enumerate's 0-based index), as the
\* checks of the loop body find it: <<>> when the leg passes all of them.
LegError(leg, i) ==
    IF ~HasKey(leg, "exchange") THEN <<"Leg ", ToString(i + 1), ": ", "exchange is required">>
    ELSE IF ~HasKey(leg, "symbol") THEN <<"Leg ", ToString(i + 1), ": ", "symbol is required">>
    ELSE IF ~HasKey(leg, "side") THEN <<"Leg ", ToString(i + 1), ": ", "side is required">>
    ELSE IF leg.exchange \notin exchange_services
        THEN <<"Leg ", ToString(i + 1), ": ", "unsupported exchange '", leg.exchange, "'">>
    ELSE IF leg.side \notin {"buy", "sell"}
        THEN <<"Leg ", ToString(i + 1), ": ", "side must be 'buy' or 'sell'">>
    ELSE <<>>

\* The for loop over enumerate(legs) from index i on: the first failing
\* leg returns; when none fails the function returns (True, "").
RECURSIVE ValidateFrom(_, _)
ValidateFrom(ls, i) ==
    IF i >= Len(ls) THEN [ok |-> TRUE, msg |-> <<>>]
    ELSE IF LegError(ls[i + 1], i) # <<>>
        THEN [ok |-> FALSE, msg |-> LegError(ls[i + 1], i)]
    ELSE ValidateFrom(ls, i + 1)

\* The for loop of validate_legs run before any count check (used by the
\* mutant below): the first failing leg, else <<>>.
RECURSIVE FirstLegError(_, _)
FirstLegError(ls, i) ==
    IF i >= Len(ls) THEN <<>>
    ELSE IF MissingFields(ls[i + 1]) # {}
        THEN <<"Leg ", ToString(i + 1), ": ", "a field is required">>
    ELSE FirstLegError(ls, i + 1)

\* Mutant of validate_legs: the per-leg fields are checked before the count.
validate_legs_FieldsFirst(ls) ==
    IF FirstLegError(ls, 0) # <<>> THEN [ok |-> FALSE, msg |-> FirstLegError(ls, 0)]
    ELSE IF Len(ls) < 2 THEN [ok |-> FALSE, msg |-> <<"At least 2 legs required">>]
    ELSE IF Len(ls) > max_legs
        THEN [ok |-> FALSE, msg |-> <<"Maximum ", ToString(max_legs), " legs allowed">>]
    ELSE ValidateFrom(ls, 0)

validate_legs(ls) ==
    IF Len(ls) < 2 THEN [ok |-> FALSE, msg |-> <<"At least 2 legs required">>]
    ELSE IF Len(ls) > max_legs
        THEN [ok |-> FALSE, msg |-> <<"Maximum ", ToString(max_legs), " legs allowed">>]
    ELSE ValidateFrom(ls, 0)

-----------------------------------------------------------------------------
(* Order books.  A book is [asks |-> levels, bids |-> levels]; a level is  *)
(* [shape, price, qty]: shape "list" is the [price, qty] pair the Binance, *)
(* CoinTR and WhiteBit clients build, shape "dict" the                     *)
(* {"price": .., "amount": ..} object the OKX client builds.  Unpacking a  *)
(* "dict" level as `price, qty` binds the two key strings, and the first   *)
(* arithmetic on them raises TypeError.                                    *)

Level(p, q) == [shape |-> "list", price |-> p, qty |-> q]
DictLevel(p, q) == [shape |-> "dict", price |-> p, qty |-> q]

-----------------------------------------------------------------------------
(* consume_levels_for_amount                                               *)

\* Mutant of ConsumeLoop: every level walked is taken whole.
RECURSIVE ConsumeLoop_WholeLevel(_, _, _, _)
ConsumeLoop_WholeLevel(levels, k, remaining, consumed) ==
    IF k > Len(levels) \/ RLe(remaining, Zero)
        THEN [raised |-> FALSE, remaining |-> remaining, consumed |-> consumed]
    ELSE IF levels[k].shape # "list"
        THEN [raised |-> TRUE, remaining |-> remaining, consumed |-> consumed]
    ELSE ConsumeLoop_WholeLevel(levels, k + 1, RSub(remaining, levels[k].qty),
                                Append(consumed, <<levels[k].price, levels[k].qty>>))

\* Mutant of ConsumeLoop: the loop has no `remaining <= 0` break.
RECURSIVE ConsumeLoop_NoBreak(_, _, _, _)
ConsumeLoop_NoBreak(levels, k, remaining, consumed) ==
    IF k > Len(levels)
        THEN [raised |-> FALSE, remaining |-> remaining, consumed |-> consumed]
    ELSE IF levels[k].shape # "list"
        THEN [raised |-> TRUE, remaining |-> remaining, consumed |-> consumed]
    ELSE ConsumeLoop_NoBreak(levels, k + 1,
                             RSub(remaining, RMin(remaining, levels[k].qty)),
                             Append(consumed,
                                    <<levels[k].price, RMin(remaining, levels[k].qty)>>))

\* The for loop from level k on.  `remaining <= 0` breaks; min(remaining,
\* available) raises on a "dict" level; else the level gives
\* min(remaining, available).
RECURSIVE ConsumeLoop(_, _, _, _)
ConsumeLoop(levels, k, remaining, consumed) ==
    IF k > Len(levels) \/ RLe(remaining, Zero)
        THEN [raised |-> FALSE, remaining |-> remaining, consumed |-> consumed]
    ELSE IF levels[k].shape # "list"
        THEN [raised |-> TRUE, remaining |-> remaining, consumed |-> consumed]
    ELSE LET consume_at_level == RMin(remaining, levels[k].qty)
         IN  ConsumeLoop(levels, k + 1, RSub(remaining, consume_at_level),
                         Append(consumed, <<levels[k].price, consume_at_level>>))

\* The walk of consume_levels_for_amount from its first level.
ConsumeWalk(levels, target_amount) == ConsumeLoop(levels, 1, target_amount, <<>>)

\* The return statement: w is the state the walk ended in.
ConsumeReturn(target_amount, w) ==
    [raised |-> w.raised,
     total_consumed |-> RSub(target_amount, w.remaining),
     consumed |-> w.consumed]

\* (total_consumed, consumed), or the TypeError raised on the way.
consume_levels_for_amount(levels, target_amount) ==
    ConsumeReturn(target_amount, ConsumeWalk(levels, target_amount))

-----------------------------------------------------------------------------
(* round(x, 8): the value as <<integer part, eight decimal digits>>.       *)

\* The long division of rem/d carried `digits` decimal places further.
RECURSIVE DecimalDigits(_, _, _, _)
DecimalDigits(rem, d, digits, acc) ==
    IF digits = 0 THEN <<acc, rem>>
    ELSE DecimalDigits((rem * 10) % d, d, digits - 1, acc * 10 + (rem * 10) \div d)

\* Round to 8 decimals, a tie going to the even last digit.
Round8(x) ==
    LET ip == x[1] \div x[2]
        dd == DecimalDigits(x[1] % x[2], x[2], 8, 0)
        up == \/ 2 * dd[2] > x[2]
              \/ (2 * dd[2] = x[2] /\ dd[1] % 2 = 1)
        fr == IF up THEN dd[1] + 1 ELSE dd[1]
    IN  IF fr = 100000000 THEN <<ip + 1, 0>> ELSE <<ip, fr>>

\* a < b for two rounded values.
DecLt(a, b) == a[1] < b[1] \/ (a[1] = b[1] /\ a[2] < b[2])

-----------------------------------------------------------------------------
(* calculate_commission_factor                                             *)

DEFAULT_COMMISSION_BPS == 10

\* Mutant of calculate_commission_factor: the fee is left out.
calculate_commission_factor_NoFee(exchange) == One

\* Mutant of calculate_commission_factor: an exchange without a rate pays
\* no fee.
calculate_commission_factor_DefaultZero(exchange) ==
    IF exchange \in DOMAIN commission_bps
        THEN RAdd(One, RMul(RInt(commission_bps[exchange]), Rat(1, 10000)))
        ELSE One

\* 1.0 + commission_bps * 0.0001, the rate being self.commission_bps.get(exchange, 10).
calculate_commission_factor(exchange) ==
    LET bps == IF exchange \in DOMAIN commission_bps
                  THEN commission_bps[exchange] ELSE DEFAULT_COMMISSION_BPS
    IN  RAdd(One, RMul(RInt(bps), Rat(1, 10000)))

-----------------------------------------------------------------------------
(* calculate_synthetic_asks                                                *)

\* s[:n] for n >= 0.
Take(s, n) == SubSeq(s, 1, IF n < Len(s) THEN n ELSE Len(s))

\* Mutant of TotalCost: every consumed quantity is costed at the price of
\* the first consumed level.
RECURSIVE TotalCost_FirstPrice(_, _)
TotalCost_FirstPrice(consumed, m) ==
    IF m = 0 THEN Zero
    ELSE RAdd(TotalCost_FirstPrice(consumed, m - 1), RMul(consumed[1][1], consumed[m][2]))

\* sum(price * amount for price, amount in consumed_levels)
RECURSIVE TotalCost(_, _)
TotalCost(consumed, m) ==
    IF m = 0 THEN Zero
    ELSE RAdd(TotalCost(consumed, m - 1), RMul(consumed[m][1], consumed[m][2]))

\* Mutant of SlippageGateTrips: a fill of exactly 95% is rejected as well.
SlippageGateTrips_AtBoundary(consumed_amount, intermediate_amount) ==
    RLe(consumed_amount, RMul(intermediate_amount, Rat(95, 100)))

\* consumed_amount < intermediate_amount * 0.95
SlippageGateTrips(consumed_amount, intermediate_amount) ==
    RLt(consumed_amount, RMul(intermediate_amount, Rat(95, 100)))

\* The inner loop `for i, leg in enumerate(legs_data[1:], 1)` from the leg
\* at position i (1-based) on.  st holds the loop's locals; st.steps
\* records, per leg walked, the amount asked of it and the amount it gave.
\* AskChainLeg is the loop body for leg i once its book has been consumed
\* (c is what consume_levels_for_amount gave).
RECURSIVE AskChain(_, _, _, _)
\* Mutant of AskChainLeg: the amount is what the last leg gave over the
\* effective price, not the least so far.
AskChainLeg_LastLegAmount(legs_data, i, effective_price, st, c) ==
    IF c.raised THEN [st EXCEPT !.exc = "TypeError"]
    ELSE IF SlippageGateTrips(c.total_consumed, st.intermediate_amount)
        THEN [st EXCEPT !.valid_chain = FALSE,
                        !.steps = Append(@, [need |-> st.intermediate_amount,
                                             fill |-> c.total_consumed])]
    ELSE AskChain(legs_data, i + 1, effective_price,
             [st EXCEPT
                 !.chain_price =
                     RMul(@, RMul(RDiv(TotalCost(c.consumed, Len(c.consumed)),
                                       c.total_consumed),
                                  calculate_commission_factor(legs_data[i].exchange))),
                 !.intermediate_amount =
                     RMul(c.total_consumed,
                          RMul(RDiv(TotalCost(c.consumed, Len(c.consumed)),
                                    c.total_consumed),
                               calculate_commission_factor(legs_data[i].exchange))),
                 !.current_amount = RDiv(c.total_consumed, effective_price),
                 !.steps = Append(@, [need |-> st.intermediate_amount,
                                      fill |-> c.total_consumed])])

AskChainLeg(legs_data, i, effective_price, st, c) ==
    IF c.raised THEN [st EXCEPT !.exc = "TypeError"]
    ELSE IF SlippageGateTrips(c.total_consumed, st.intermediate_amount)
        THEN [st EXCEPT !.valid_chain = FALSE,
                        !.steps = Append(@, [need |-> st.intermediate_amount,
                                             fill |-> c.total_consumed])]
    ELSE
        LET avg_price == IF RLt(Zero, c.total_consumed)
                            THEN RDiv(TotalCost(c.consumed, Len(c.consumed)),
                                      c.total_consumed)
                            ELSE Zero
            effective_leg_price ==
                RMul(avg_price, calculate_commission_factor(legs_data[i].exchange))
        IN  AskChain(legs_data, i + 1, effective_price,
                [st EXCEPT
                    !.chain_price = RMul(@, effective_leg_price),
                    !.intermediate_amount = RMul(c.total_consumed, effective_leg_price),
                    !.current_amount = RMin(@, RDiv(c.total_consumed, effective_price)),
                    !.steps = Append(@, [need |-> st.intermediate_amount,
                                         fill |-> c.total_consumed])])

AskChain(legs_data, i, effective_price, st) ==
    IF i > Len(legs_data) THEN st
    ELSE IF ~legs_data[i].available THEN [st EXCEPT !.valid_chain = FALSE]
    ELSE IF ~HasKey(legs_data[i].orderbook, "asks") THEN [st EXCEPT !.exc = "KeyError"]
    ELSE AskChainLeg(legs_data, i, effective_price, st,
                     consume_levels_for_amount(legs_data[i].orderbook.asks,
                                               st.intermediate_amount))

\* What the loop body made of one starting level: st is the state of the
\* inner loop at its end, emit the test `valid_chain and current_amount > 0`.
AskOutcome(level, st) ==
    [exc |-> st.exc,
     emit |-> st.exc = "" /\ st.valid_chain /\ RLt(Zero, st.current_amount),
     valid_chain |-> st.valid_chain,
     p0 |-> level.price, q0 |-> level.qty,
     chain_price |-> st.chain_price, current_amount |-> st.current_amount,
     steps |-> st.steps]

\* The inner loop entered with the effective price of the starting level.
AskChainStart(legs_data, level, effective_price) ==
    AskChain(legs_data, 2, effective_price,
             [exc |-> "", valid_chain |-> TRUE,
              chain_price |-> effective_price,
              intermediate_amount |-> RMul(level.qty, effective_price),
              current_amount |-> level.qty,
              steps |-> <<>>])

\* The body of the outer loop for one starting ask level of leg 1, up to
\* the test `valid_chain and current_amount > 0`.
AskCandidate(legs_data, level) ==
    IF level.shape # "list"
        THEN [exc |-> "TypeError", emit |-> FALSE, valid_chain |-> FALSE,
              p0 |-> level.price, q0 |-> level.qty,
              chain_price |-> Zero, current_amount |-> Zero, steps |-> <<>>]
    ELSE AskOutcome(level,
             AskChainStart(legs_data, level,
                 RMul(level.price, calculate_commission_factor(legs_data[1].exchange))))

\* The synthetic level appended for a candidate that completed its chain.
SyntheticLevel(c) ==
    [price |-> Round8(c.chain_price), amount |-> Round8(c.current_amount)]

\* The outer loop over the starting levels from the k-th on: an exception
\* ends the call, the depth-th appended level breaks the loop.  AskLoopStep
\* is one iteration, c being the candidate of the k-th starting level.
RECURSIVE AskLoop(_, _, _, _, _, _)
\* Mutant of AskLoopStep: a candidate that emits uses up the top ask level
\* of every later leg, so the next candidate starts below it.
AskLoopStep_Deducts(legs_data, dpt, starts, k, synthetic_levels, trace, c) ==
    IF c.exc # ""
        THEN [exc |-> c.exc, levels |-> synthetic_levels, trace |-> Append(trace, c)]
    ELSE IF ~c.emit
        THEN AskLoop(legs_data, dpt, starts, k + 1, synthetic_levels, Append(trace, c))
    ELSE IF Len(synthetic_levels) + 1 >= dpt
        THEN [exc |-> "", levels |-> Append(synthetic_levels, SyntheticLevel(c)),
              trace |-> Append(trace, c)]
    ELSE AskLoop([i \in 1..Len(legs_data) |->
                     IF i = 1 \/ legs_data[i].orderbook.asks = <<>> THEN legs_data[i]
                     ELSE [legs_data[i] EXCEPT !.orderbook.asks = Tail(@)]],
                 dpt, starts, k + 1,
                 Append(synthetic_levels, SyntheticLevel(c)), Append(trace, c))

AskLoopStep(legs_data, dpt, starts, k, synthetic_levels, trace, c) ==
    IF c.exc # ""
        THEN [exc |-> c.exc, levels |-> synthetic_levels, trace |-> Append(trace, c)]
    ELSE IF ~c.emit
        THEN AskLoop(legs_data, dpt, starts, k + 1, synthetic_levels, Append(trace, c))
    ELSE IF Len(synthetic_levels) + 1 >= dpt
        THEN [exc |-> "", levels |-> Append(synthetic_levels, SyntheticLevel(c)),
              trace |-> Append(trace, c)]
    ELSE AskLoop(legs_data, dpt, starts, k + 1,
                 Append(synthetic_levels, SyntheticLevel(c)), Append(trace, c))

AskLoop(legs_data, dpt, starts, k, synthetic_levels, trace) ==
    IF k > Len(starts)
        THEN [exc |-> "", levels |-> synthetic_levels, trace |-> trace]
    ELSE AskLoopStep(legs_data, dpt, starts, k, synthetic_levels, trace,
                     AskCandidate(legs_data, starts[k]))

\* list.sort(key=price): a stable insertion of x into an ascending list.
RECURSIVE InsertAscending(_, _)
InsertAscending(sorted, x) ==
    IF sorted = <<>> THEN <<x>>
    ELSE IF DecLt(x.price, sorted[Len(sorted)].price)
        THEN Append(InsertAscending(SubSeq(sorted, 1, Len(sorted) - 1), x),
                    sorted[Len(sorted)])
    ELSE Append(sorted, x)

\* Mutant of SortAscending: the list is left in the order of emission.
SortAscending_Unsorted(s) == s

RECURSIVE SortAscending(_)
SortAscending(s) ==
    IF s = <<>> THEN <<>>
    ELSE InsertAscending(SortAscending(SubSeq(s, 1, Len(s) - 1)), s[Len(s)])

\* The end of calculate_synthetic_asks: r is what the outer loop gave.
AskReturn(r, dpt) ==
    [exc |-> r.exc,
     levels |-> IF r.exc = "" THEN Take(SortAscending(r.levels), dpt) ELSE <<>>,
     trace |-> r.trace]

\* Mutant of calculate_synthetic_asks: every ask level of leg 1 is a
\* starting level.
calculate_synthetic_asks_EveryStart(legs_data, dpt) ==
    IF legs_data = <<>> \/ \E i \in 1..Len(legs_data) : ~legs_data[i].available
        THEN [exc |-> "", levels |-> <<>>, trace |-> <<>>]
    ELSE IF ~HasKey(legs_data[1].orderbook, "asks")
        THEN [exc |-> "KeyError", levels |-> <<>>, trace |-> <<>>]
    ELSE AskReturn(AskLoop(legs_data, dpt, legs_data[1].orderbook.asks,
                           1, <<>>, <<>>), dpt)

\* The list returned (levels), or the exception raised (exc); trace is the
\* record of the starting levels examined, in order.
calculate_synthetic_asks(legs_data, dpt) ==
    IF legs_data = <<>> \/ \E i \in 1..Len(legs_data) : ~legs_data[i].available
        THEN [exc |-> "", levels |-> <<>>, trace |-> <<>>]
    ELSE IF ~HasKey(legs_data[1].orderbook, "asks")
        THEN [exc |-> "KeyError", levels |-> <<>>, trace |-> <<>>]
    ELSE AskReturn(AskLoop(legs_data, dpt, Take(legs_data[1].orderbook.asks, dpt * 2),
                           1, <<>>, <<>>), dpt)

-----------------------------------------------------------------------------
(* calculate_synthetic_bids: prices only a chain of exactly two legs.      *)

\* The loop body for one bid level of leg 1 once the bids of leg 2 have
\* been consumed (c is what consume_levels_for_amount gave for
\* usdt_received).
BidOutcome(legs_data, level, eth_price_after_comm, usdt_received, c) ==
    IF c.raised
        THEN [exc |-> "TypeError", emit |-> FALSE, p0 |-> level.price, q0 |-> level.qty,
              need |-> usdt_received, fill |-> c.total_consumed,
              price |-> Zero, amount |-> Zero]
    ELSE IF SlippageGateTrips(c.total_consumed, usdt_received)
        THEN [exc |-> "", emit |-> FALSE, p0 |-> level.price, q0 |-> level.qty,
              need |-> usdt_received, fill |-> c.total_consumed,
              price |-> Zero, amount |-> Zero]
    ELSE
        LET avg_usdtry_bid == IF RLt(Zero, c.total_consumed)
                                 THEN RDiv(TotalCost(c.consumed, Len(c.consumed)),
                                           c.total_consumed)
                                 ELSE Zero
            usdtry_price_after_comm ==
                RMul(avg_usdtry_bid, calculate_commission_factor(legs_data[2].exchange))
            synthetic_amount ==
                RMin(level.qty, RDiv(c.total_consumed, eth_price_after_comm))
        IN  [exc |-> "", emit |-> RLt(Zero, synthetic_amount),
             p0 |-> level.price, q0 |-> level.qty,
             need |-> usdt_received, fill |-> c.total_consumed,
             price |-> RMul(eth_price_after_comm, usdtry_price_after_comm),
             amount |-> synthetic_amount]

\* Mutant of BidConsume: the proceeds leg 2 is asked to convert are taken
\* before the commission of leg 1.
BidConsume_ProceedsBeforeFee(legs_data, level, usdtry_bids, eth_price_after_comm) ==
    BidOutcome(legs_data, level, eth_price_after_comm,
               RMul(level.qty, level.price),
               consume_levels_for_amount(usdtry_bids, RMul(level.qty, level.price)))

\* The loop body from the consumption of leg 2 on, for the bid price of
\* leg 1 after commission.
BidConsume(legs_data, level, usdtry_bids, eth_price_after_comm) ==
    BidOutcome(legs_data, level, eth_price_after_comm,
               RMul(level.qty, eth_price_after_comm),
               consume_levels_for_amount(usdtry_bids,
                                         RMul(level.qty, eth_price_after_comm)))

\* The body of the loop for one bid level of leg 1, against the first
\* depth * 2 bids of leg 2.
BidCandidate(legs_data, level, usdtry_bids) ==
    IF level.shape # "list"
        THEN [exc |-> "TypeError", emit |-> FALSE, p0 |-> level.price, q0 |-> level.qty,
              need |-> Zero, fill |-> Zero, price |-> Zero, amount |-> Zero]
    ELSE BidConsume(legs_data, level, usdtry_bids,
             RMul(level.price, calculate_commission_factor(legs_data[1].exchange)))

\* The loop over the bids of leg 1 from the k-th on; BidLoopStep is one
\* iteration, c being the candidate of the k-th bid.
RECURSIVE BidLoop(_, _, _, _, _, _)
BidLoopStep(legs_data, dpt, ethusd_bids, usdtry_bids, k, synthetic_levels, c) ==
    IF c.exc # "" THEN [exc |-> c.exc, levels |-> synthetic_levels]
    ELSE IF ~c.emit
        THEN BidLoop(legs_data, dpt, ethusd_bids, usdtry_bids, k + 1, synthetic_levels)
    ELSE IF Len(synthetic_levels) + 1 >= dpt
        THEN [exc |-> "",
              levels |-> Append(synthetic_levels,
                                [price |-> Round8(c.price), amount |-> Round8(c.amount)])]
    ELSE BidLoop(legs_data, dpt, ethusd_bids, usdtry_bids, k + 1,
                 Append(synthetic_levels,
                        [price |-> Round8(c.price), amount |-> Round8(c.amount)]))

BidLoop(legs_data, dpt, ethusd_bids, usdtry_bids, k, synthetic_levels) ==
    IF k > Len(ethusd_bids) THEN [exc |-> "", levels |-> synthetic_levels]
    ELSE BidLoopStep(legs_data, dpt, ethusd_bids, usdtry_bids, k, synthetic_levels,
                     BidCandidate(legs_data, ethusd_bids[k], usdtry_bids))

\* list.sort(key=price, reverse=True): stable, highest price first.
RECURSIVE InsertDescending(_, _)
InsertDescending(sorted, x) ==
    IF sorted = <<>> THEN <<x>>
    ELSE IF DecLt(sorted[Len(sorted)].price, x.price)
        THEN Append(InsertDescending(SubSeq(sorted, 1, Len(sorted) - 1), x),
                    sorted[Len(sorted)])
    ELSE Append(sorted, x)

RECURSIVE SortDescending(_)
SortDescending(s) ==
    IF s = <<>> THEN <<>>
    ELSE InsertDescending(SortDescending(SubSeq(s, 1, Len(s) - 1)), s[Len(s)])

\* The end of calculate_synthetic_bids: r is what the loop gave.
BidReturn(r, dpt) ==
    [exc |-> r.exc,
     levels |-> IF r.exc = "" THEN Take(SortDescending(r.levels), dpt) ELSE <<>>]

\* Mutant of calculate_synthetic_bids: a longer chain is priced as its
\* first two legs.
calculate_synthetic_bids_FirstTwoLegs(legs_data, dpt) ==
    IF legs_data = <<>> \/ \E i \in 1..Len(legs_data) : ~legs_data[i].available
        THEN [exc |-> "", levels |-> <<>>]
    ELSE IF Len(legs_data) < 2 THEN [exc |-> "", levels |-> <<>>]
    ELSE IF ~HasKey(legs_data[1].orderbook, "bids") \/ ~HasKey(legs_data[2].orderbook, "bids")
        THEN [exc |-> "KeyError", levels |-> <<>>]
    ELSE BidReturn(BidLoop(legs_data, dpt,
                           Take(legs_data[1].orderbook.bids, dpt * 2),
                           Take(legs_data[2].orderbook.bids, dpt * 2), 1, <<>>), dpt)

\* The list returned (levels), or the exception raised (exc).
calculate_synthetic_bids(legs_data, dpt) ==
    IF legs_data = <<>> \/ \E i \in 1..Len(legs_data) : ~legs_data[i].available
        THEN [exc |-> "", levels |-> <<>>]
    ELSE IF Len(legs_data) # 2 THEN [exc |-> "", levels |-> <<>>]
    ELSE IF ~HasKey(legs_data[1].orderbook, "bids") \/ ~HasKey(legs_data[2].orderbook, "bids")
        THEN [exc |-> "KeyError", levels |-> <<>>]
    ELSE BidReturn(BidLoop(legs_data, dpt,
                           Take(legs_data[1].orderbook.bids, dpt * 2),
                           Take(legs_data[2].orderbook.bids, dpt * 2), 1, <<>>), dpt)

-----------------------------------------------------------------------------
(* extract_currencies and derive_synthetic_pair, on strings.               *)

LowerCase == "abcdefghijklmnopqrstuvwxyz"
UpperCase == "ABCDEFGHIJKLMNOPQRSTUVWXYZ"

\* str.upper() of one character.
UpperChar(ch) ==
    IF \E k \in 1..Len(LowerCase) : SubSeq(LowerCase, k, k) = ch
        THEN LET k == CHOOSE j \in 1..Len(LowerCase) : SubSeq(LowerCase, j, j) = ch
             IN  SubSeq(UpperCase, k, k)
        ELSE ch

\* symbol.upper().replace("-", "").replace("_", ""), from the k-th character on.
RECURSIVE NormaliseFrom(_, _)
NormaliseFrom(symbol, k) ==
    IF k > Len(symbol) THEN ""
    ELSE LET ch == SubSeq(symbol, k, k)
         IN  (IF ch \in {"-", "_"} THEN "" ELSE UpperChar(ch)) \o NormaliseFrom(symbol, k + 1)

EndsWith(s, suffix) ==
    /\ Len(s) >= Len(suffix)
    /\ SubSeq(s, Len(s) - Len(suffix) + 1, Len(s)) = suffix

quote_currencies == <<"USDT", "TRY", "USD", "EUR", "BTC", "ETH">>

\* The loop over quote_currencies from the k-th on, then the fallback.
RECURSIVE SplitFrom(_, _)
SplitFrom(symbol, k) ==
    IF k > Len(quote_currencies) THEN
        IF Len(symbol) >= 6
            THEN <<SubSeq(symbol, 1, Len(symbol) - 3),
                   SubSeq(symbol, Len(symbol) - 2, Len(symbol))>>
            ELSE <<symbol, "">>
    ELSE IF /\ EndsWith(symbol, quote_currencies[k])
            /\ Len(symbol) - Len(quote_currencies[k]) >= 2
        THEN <<SubSeq(symbol, 1, Len(symbol) - Len(quote_currencies[k])),
               quote_currencies[k]>>
    ELSE SplitFrom(symbol, k + 1)

\* Mutant of extract_currencies: the symbol is split as it was passed.
extract_currencies_AsPassed(symbol) == SplitFrom(symbol, 1)

extract_currencies(symbol) == SplitFrom(NormaliseFrom(symbol, 1), 1)

\* Mutant of derive_synthetic_pair: the quote is taken from the second leg.
derive_synthetic_pair_SecondLeg(ls) ==
    IF Len(ls) < 2 THEN <<"", "", "">>
    ELSE <<extract_currencies(ls[1].symbol)[1] \o extract_currencies(ls[2].symbol)[2],
           extract_currencies(ls[1].symbol)[1],
           extract_currencies(ls[2].symbol)[2]>>

\* <<synthetic_pair, base, quote>>
derive_synthetic_pair(ls) ==
    IF Len(ls) < 2 THEN <<"", "", "">>
    ELSE LET synthetic_base == extract_currencies(ls[1].symbol)[1]
             synthetic_quote == extract_currencies(ls[Len(ls)].symbol)[2]
         IN  <<synthetic_base \o synthetic_quote, synthetic_base, synthetic_quote>>

-----------------------------------------------------------------------------
(* The exchange services and fetch_leg_orderbook.                          *)

\* The levels an exchange quotes for a symbol, as <<price, qty>> pairs:
\* ETH/USDT around 2000, anything else (USDT/TRY) around 35.
QuotedAsks(symbol) ==
    IF symbol = "ETHUSDT" THEN <<<<RInt(2000), RInt(1)>>>>
    ELSE IF symbol \in {"USDTEUR", "EURTRY"} THEN <<<<RInt(1), RInt(3000)>>>>
    ELSE <<<<RInt(35), RInt(3000)>>>>

QuotedBids(symbol) ==
    IF symbol = "ETHUSDT" THEN <<<<RInt(1900), RInt(1)>>>>
    ELSE IF symbol \in {"USDTEUR", "EURTRY"} THEN <<<<RInt(1), RInt(3000)>>>>
    ELSE <<<<RInt(34), RInt(3000)>>>>

\* The book a service's get_orderbook returns when the upstream answers:
\* OKXService formats every level as {"price": .., "amount": ..}, the
\* other services as [price, qty].
get_orderbook(exchange, symbol) ==
    LET shaped(q) == [k \in 1..Len(q) |->
                        IF exchange = "okx" THEN DictLevel(q[k][1], q[k][2])
                        ELSE Level(q[k][1], q[k][2])]
    IN  [asks |-> shaped(QuotedAsks(symbol)), bids |-> shaped(QuotedBids(symbol))]

\* What get_orderbook does: return a book, return None, or raise.
ServiceOutcomes == {"book", "none", "raise"}

Pending == [kind |-> "pending"]
NoneValue == [kind |-> "none"]
ExceptionValue == [kind |-> "exception"]

\* fetch_leg_orderbook: the service's book or None, and None when the
\* service raised.
fetch_leg_orderbook(exchange, symbol, outcome) ==
    IF outcome = "book"
        THEN [kind |-> "book", book |-> get_orderbook(exchange, symbol)]
    ELSE NoneValue

-----------------------------------------------------------------------------
(* create_synthetic_orderbook.                                             *)

\* not isinstance(orderbook, Exception) and orderbook is not None
Available_NoneCountsAsBook(orderbook) == orderbook.kind # "exception"

Available(orderbook) == orderbook.kind # "exception" /\ orderbook.kind # "none"

\* Mutant of BuildLegsData: the gathered results are paired with the legs
\* from the last one backwards.
BuildLegsData_Reversed(ls, orderbooks) ==
    [i \in 1..Len(ls) |->
        [exchange |-> ls[i].exchange,
         symbol |-> ls[i].symbol,
         side |-> ls[i].side,
         commission_bps |-> IF ls[i].exchange \in DOMAIN commission_bps
                               THEN commission_bps[ls[i].exchange]
                               ELSE DEFAULT_COMMISSION_BPS,
         available |-> Available(orderbooks[Len(ls) + 1 - i]),
         orderbook |-> IF orderbooks[Len(ls) + 1 - i].kind = "book"
                          THEN orderbooks[Len(ls) + 1 - i].book
                       ELSE [asks |-> <<>>, bids |-> <<>>]]]

\* The legs_data list built from the legs and the gathered results.
BuildLegsData(ls, orderbooks) ==
    [i \in 1..Len(ls) |->
        [exchange |-> ls[i].exchange,
         symbol |-> ls[i].symbol,
         side |-> ls[i].side,
         commission_bps |-> IF ls[i].exchange \in DOMAIN commission_bps
                               THEN commission_bps[ls[i].exchange]
                               ELSE DEFAULT_COMMISSION_BPS,
         available |-> Available(orderbooks[i]),
         orderbook |-> IF orderbooks[i].kind = "book" THEN orderbooks[i].book
                       ELSE [asks |-> <<>>, bids |-> <<>>]]]

\* The response of a request whose legs failed the validation.
ValidationFailure(error_msg) ==
    [success |-> FALSE, error |-> error_msg, legs |-> <<>>]

\* The `result` dict built from legs_data, the derived pair and the two
\* synthetic lists.
Response(legs_data, pair, synthetic_asks, synthetic_bids) ==
    [success |-> TRUE,
     synthetic_pair |-> pair[1], base |-> pair[2], quote |-> pair[3],
     asks |-> synthetic_asks,
     bids |-> synthetic_bids,
     legs |-> [i \in 1..Len(legs_data) |->
                 [exchange |-> legs_data[i].exchange,
                  symbol |-> legs_data[i].symbol,
                  commission_bps |-> legs_data[i].commission_bps,
                  available |-> legs_data[i].available]],
     note |-> "KDV ignored; commissions applied per leg"]

\* The request from the pricing on: the response, or the exception the
\* ask pricer or, after it, the bid pricer raised.
PriceAndRespond(legs_data, pair, synthetic_asks, synthetic_bids) ==
    IF synthetic_asks.exc # "" THEN [raised |-> synthetic_asks.exc]
    ELSE IF synthetic_bids.exc # "" THEN [raised |-> synthetic_bids.exc]
    ELSE [raised |-> "",
          response |-> Response(legs_data, pair, synthetic_asks.levels,
                                synthetic_bids.levels)]

\* The request from legs_data on.
RespondFor(ls, legs_data, dpt) ==
    PriceAndRespond(legs_data, derive_synthetic_pair(ls),
                    calculate_synthetic_asks(legs_data, dpt),
                    calculate_synthetic_bids(legs_data, dpt))

\* What the request gives its caller once every fetch has settled: the
\* response, or the exception a pricer raised.
BuildResult(ls, orderbooks, dpt) ==
    RespondFor(ls, BuildLegsData(ls, orderbooks), dpt)

\* Mutant of ClampDepth: the depth is used as passed.
ClampDepth_Unclamped(d) == d

\* `if depth > self.max_depth: depth = self.max_depth`.
ClampDepth(d) == IF d > max_depth THEN max_depth ELSE d

\* The request starts: validation, the clamp of depth, and one
\* fetch_leg_orderbook task per leg, handed to asyncio.gather.
Call_FetchBeforeValidate(l, d) ==
    /\ pc = "idle"
    /\ legs' = l
    /\ depthArg' = d
    /\ depth' = ClampDepth(d)
    /\ fetchCalls' = [i \in 1..Len(l) |-> [limit |-> depth' * 2]]
    /\ LET v == validate_legs(l)
       IN  IF ~v.ok
               THEN /\ result' = [called |-> TRUE, raised |-> "",
                                  response |-> ValidationFailure(v.msg)]
                    /\ fetch' = <<>>
                    /\ pc' = "done"
               ELSE /\ fetch' = [i \in 1..Len(l) |-> Pending]
                    /\ pc' = "fetching"
                    /\ result' = NotCalled
    /\ UNCHANGED <<commission_bps, valVars, conVars, priVars, moreVars>>

Call(l, d) ==
    /\ pc = "idle"
    /\ legs' = l
    /\ depthArg' = d
    /\ LET v == validate_legs(l)
       IN  IF ~v.ok
               THEN /\ result' = [called |-> TRUE, raised |-> "",
                                  response |-> ValidationFailure(v.msg)]
                    /\ depth' = d
                    /\ fetch' = <<>>
                    /\ fetchCalls' = <<>>
                    /\ pc' = "done"
               ELSE /\ depth' = ClampDepth(d)
                    /\ fetchCalls' = [i \in 1..Len(l) |->
                                        [exchange |-> l[i].exchange,
                                         symbol |-> l[i].symbol,
                                         limit |-> depth' * 2]]
                    /\ fetch' = [i \in 1..Len(l) |-> Pending]
                    /\ pc' = "fetching"
                    /\ result' = NotCalled
    /\ UNCHANGED <<commission_bps, valVars, conVars, priVars, moreVars>>

\* The fetch of leg i completes: its service returned a book, returned
\* None, or raised (which fetch_leg_orderbook turns into None).
FetchReturn(i, outcome) ==
    /\ pc = "fetching"
    /\ fetch[i] = Pending
    /\ fetch' = [fetch EXCEPT ![i] =
                    fetch_leg_orderbook(legs[i].exchange, legs[i].symbol, outcome)]
    /\ UNCHANGED <<commission_bps, legs, depthArg, depth, pc, fetchCalls, result,
                   valVars, conVars, priVars, moreVars>>

\* The task of leg i ends with an exception, which gather (with
\* return_exceptions=True) hands over as a value.
FetchRaise(i) ==
    /\ pc = "fetching"
    /\ fetch[i] = Pending
    /\ fetch' = [fetch EXCEPT ![i] = ExceptionValue]
    /\ UNCHANGED <<commission_bps, legs, depthArg, depth, pc, fetchCalls, result,
                   valVars, conVars, priVars, moreVars>>

\* Mutant of Assemble: pricing takes the top ask level out of every book
\* fetched for a later leg.
Assemble_ConsumesBooks ==
    /\ pc = "fetching"
    /\ \A i \in 1..Len(legs) : fetch[i] # Pending
    /\ result' = [called |-> TRUE] @@ BuildResult(legs, fetch, depth)
    /\ pc' = "done"
    /\ fetch' = [i \in 1..Len(fetch) |->
                    IF i = 1 \/ fetch[i].kind # "book" THEN fetch[i]
                    ELSE IF ~HasKey(fetch[i].book, "asks") THEN fetch[i]
                    ELSE IF fetch[i].book.asks = <<>> THEN fetch[i]
                    ELSE [fetch[i] EXCEPT !.book.asks = Tail(@)]]
    /\ UNCHANGED <<commission_bps, legs, depthArg, depth, fetchCalls,
                   valVars, conVars, priVars, moreVars>>

\* gather has every result: legs_data, the pair, asks, bids, the response.
Assemble ==
    /\ pc = "fetching"
    /\ \A i \in 1..Len(legs) : fetch[i] # Pending
    /\ result' = [called |-> TRUE] @@ BuildResult(legs, fetch, depth)
    /\ pc' = "done"
    /\ UNCHANGED <<commission_bps, legs, depthArg, depth, fetch, fetchCalls,
                   valVars, conVars, priVars, moreVars>>

\* The caller has its response (or exception); the service is idle again.
Return ==
    /\ pc = "done"
    /\ legs' = <<>> /\ depthArg' = 0 /\ depth' = 0 /\ pc' = "idle"
    /\ fetch' = <<>> /\ fetchCalls' = <<>> /\ result' = NotCalled
    /\ UNCHANGED <<commission_bps, valVars, conVars, priVars, moreVars>>

-----------------------------------------------------------------------------
(* Inputs of the validation: leg lists of 0 .. MaxInputLegs legs.  Up to   *)
(* MaxOddLegs positions hold any leg of LegVariants (legs lacking fields,  *)
(* legs with unsupported values, valid legs); the others hold FillerLeg.   *)

MaxInputLegs == 7
MaxOddLegs == 2

FillerLeg == [exchange |-> "binance", symbol |-> "ETHUSDT", side |-> "sell"]

LegVariants ==
    { [exchange |-> "binance", symbol |-> "ETHUSDT", side |-> "sell"],
      [exchange |-> "okx", symbol |-> "USDTTRY", side |-> "buy"],
      [symbol |-> "USDTTRY", side |-> "sell"],
      [exchange |-> "cointr", side |-> "sell"],
      [exchange |-> "binance", symbol |-> "ETHUSDT"],
      [exchange |-> "kraken", symbol |-> "USDTTRY", side |-> "sell"],
      [exchange |-> "whitebit", symbol |-> "USDTTRY", side |-> "hold"],
      [exchange |-> "kraken", symbol |-> "USDTTRY"],
      [side |-> "buy"],
      [k \in {} |-> ""] }

\* The leg list of n legs whose positions in S hold f's legs.
InputLegs(n, S, f) == [i \in 1..n |-> IF i \in S THEN f[i] ELSE FillerLeg]

OrchIdle ==
    /\ commission_bps = InitCommissionBps
    /\ legs = <<>>
    /\ depthArg = 0
    /\ depth = 0
    /\ pc = "idle"
    /\ fetch = <<>>
    /\ fetchCalls = <<>>
    /\ result = NotCalled

ValIdle == vLegs = <<>> /\ vResult = NotCalled
ConIdle == cLevels = <<>> /\ cTarget = Zero /\ cResult = NotCalled
PriIdle == pLegsData = <<>> /\ pDepth = 0 /\ pAsks = NotCalled /\ pBids = NotCalled
SymIdle == xSymbol = "" /\ xResult = NotCalled
DerIdle == dLegs = <<>> /\ dResult = NotCalled
FacIdle == fExchange = "" /\ fResult = NotCalled
TwoIdle == requests = <<>>
EndIdle == eRequest = [legs |-> <<>>, depth |-> 0] /\ eResponse = NotCalled
MoreIdle == SymIdle /\ DerIdle /\ FacIdle /\ TwoIdle /\ EndIdle

InitValidate ==
    /\ OrchIdle /\ ConIdle /\ PriIdle /\ MoreIdle
    /\ \E n \in 0..MaxInputLegs :
          \E S \in SUBSET (1..n) :
              /\ Cardinality(S) <= MaxOddLegs
              /\ \E f \in [S -> LegVariants] : vLegs = InputLegs(n, S, f)
    /\ vResult = NotCalled

\* validate_legs(vLegs) is called and returns.
Validate ==
    /\ ~vResult.called
    /\ vResult' = [called |-> TRUE] @@ validate_legs(vLegs)
    /\ UNCHANGED <<vLegs, orchVars, conVars, priVars, moreVars>>

NextValidate == Validate

SpecValidate == InitValidate /\ [][NextValidate]_vars

\* Whether the message contains the fragment.
Mentions(msg, frag) == \E k \in DOMAIN msg : msg[k] = frag

\* A leg with an exchange of the supported set, a symbol and a side in {buy, sell}.
WellFormedLeg(leg) ==
    /\ HasKey(leg, "exchange") /\ HasKey(leg, "symbol") /\ HasKey(leg, "side")
    /\ leg.exchange \in {"binance", "cointr", "whitebit", "okx"}
    /\ leg.side \in {"buy", "sell"}

\* C7: validate_legs returns (True, "") if and only if the list has 2 to 6
\* legs and every leg has a supported exchange, a symbol and a side in
\* {buy, sell}; in every other case it returns (False, non-empty message).
C7_ValidateIff ==
    vResult.called =>
        LET good == /\ Len(vLegs) >= 2 /\ Len(vLegs) <= 6
                    /\ \A i \in 1..Len(vLegs) : WellFormedLeg(vLegs[i])
        IN  /\ good => (vResult.ok /\ vResult.msg = <<>>)
            /\ ~good => (~vResult.ok /\ vResult.msg # <<>>)

\* C7 witness: a list of 6 well-formed legs accepted.
C7_Witness ==
    /\ vResult.called /\ vResult.ok
    /\ Len(vLegs) = 6
    /\ \E i \in 1..6 : vLegs[i].exchange = "okx"

\* C8: fewer than 2 legs is rejected with 'At least 2 legs required' and
\* more than 6 with 'Maximum 6 legs allowed', whatever the legs contain:
\* the count is checked before any per-leg field.
C8_CountBeforeFields ==
    vResult.called =>
        /\ Len(vLegs) < 2 =>
              (~vResult.ok /\ vResult.msg = <<"At least 2 legs required">>)
        /\ Len(vLegs) > 6 =>
              (~vResult.ok /\ vResult.msg = <<"Maximum ", "6", " legs allowed">>)

\* C8 witness: 7 legs, the first of them lacking a field, rejected.
C8_Witness ==
    /\ vResult.called /\ ~vResult.ok
    /\ Len(vLegs) = 7
    /\ MissingFields(vLegs[1]) # {}

\* C9: in a list of valid length where one leg lacks `side` and everything
\* else is valid, the error is 'Leg i: side is required' with i the
\* 1-based position of that leg.
C9_MissingSideNamed ==
    vResult.called =>
        \A i \in 1..Len(vLegs) :
            ( /\ Len(vLegs) >= 2 /\ Len(vLegs) <= 6
              /\ MissingFields(vLegs[i]) = {"side"}
              /\ vLegs[i].exchange \in {"binance", "cointr", "whitebit", "okx"}
              /\ \A j \in 1..Len(vLegs) : j # i => WellFormedLeg(vLegs[j]) )
            => ( /\ ~vResult.ok
                 /\ vResult.msg = <<"Leg ", ToString(i), ": ", "side is required">> )

\* C9 witness: the third of four legs lacks `side`, the others are valid.
C9_Witness ==
    /\ vResult.called
    /\ Len(vLegs) = 4
    /\ MissingFields(vLegs[3]) = {"side"}
    /\ vLegs[3].exchange = "binance"
    /\ \A j \in {1, 2, 4} : WellFormedLeg(vLegs[j])

\* C10: when several legs of a list each lack a required field, the
\* single error message mentions every missing field ('<field> is
\* required' for each of them).
C10_EveryMissingFieldMentioned ==
    ( /\ vResult.called
      /\ Len(vLegs) >= 2 /\ Len(vLegs) <= 6
      /\ Cardinality({i \in 1..Len(vLegs) : MissingFields(vLegs[i]) # {}}) >= 2 )
    => ( /\ ~vResult.ok
         /\ \A i \in 1..Len(vLegs) :
               /\ "exchange" \in MissingFields(vLegs[i])
                     => Mentions(vResult.msg, "exchange is required")
               /\ "symbol" \in MissingFields(vLegs[i])
                     => Mentions(vResult.msg, "symbol is required")
               /\ "side" \in MissingFields(vLegs[i])
                     => Mentions(vResult.msg, "side is required") )

-----------------------------------------------------------------------------
(* Inputs of the liquidity consumer: up to MaxLevels levels of [price,     *)
(* qty] pairs with positive quantities, and a target that may be           *)
(* negative, zero, below, equal to or above the liquidity of the book.     *)

MaxLevels == 3

ConsumePrices == {RInt(100), RInt(101)}
ConsumeQtys == {Rat(1, 2), RInt(1), RInt(3)}
ConsumeTargets == {RInt(-1), Zero, Rat(1, 2), RInt(1), RInt(2), Rat(5, 2), RInt(6), RInt(10)}

\* The [price, qty] levels over the given prices and quantities.
Levels(prices, qtys) == {Level(p, q) : p \in prices, q \in qtys}

InitConsume ==
    /\ OrchIdle /\ ValIdle /\ PriIdle /\ MoreIdle
    /\ \E n \in 0..MaxLevels : cLevels \in [1..n -> Levels(ConsumePrices, ConsumeQtys)]
    /\ cTarget \in ConsumeTargets
    /\ cResult = NotCalled

\* consume_levels_for_amount(cLevels, cTarget) is called and returns or raises.
Consume ==
    /\ ~cResult.called
    /\ cResult' = [called |-> TRUE] @@ consume_levels_for_amount(cLevels, cTarget)
    /\ UNCHANGED <<cLevels, cTarget, orchVars, valVars, priVars, moreVars>>

NextConsume == Consume

SpecConsume == InitConsume /\ [][NextConsume]_vars

\* The sum of the quantities of the first m levels.
RECURSIVE SumQty(_, _)
SumQty(levels, m) ==
    IF m = 0 THEN Zero ELSE RAdd(SumQty(levels, m - 1), levels[m].qty)

\* The sum of the quantities of the first m consumed (price, qty) pairs.
RECURSIVE SumConsumed(_, _)
SumConsumed(consumed, m) ==
    IF m = 0 THEN Zero ELSE RAdd(SumConsumed(consumed, m - 1), consumed[m][2])

\* C5: for levels with positive quantities and target_qty > 0 the consumer
\* walks the levels in order taking min(remaining, level quantity) at
\* each, and returns filled = min(target_qty, sum of the level quantities)
\* with the consumed quantities summing to filled.
C5_ConsumeFillsMin ==
    (cResult.called /\ RLt(Zero, cTarget)) =>
        LET total == SumQty(cLevels, Len(cLevels))
            filled == IF RLt(total, cTarget) THEN total ELSE cTarget
            n == Len(cResult.consumed)
        IN  /\ ~cResult.raised
            /\ cResult.total_consumed = filled
            /\ SumConsumed(cResult.consumed, n) = filled
            /\ n <= Len(cLevels)
            /\ \A k \in 1..n :
                  LET before == SumQty(cLevels, k - 1)
                      left == RSub(cTarget, before)
                  IN  /\ RLt(Zero, left)
                      /\ cResult.consumed[k][1] = cLevels[k].price
                      /\ cResult.consumed[k][2] =
                            (IF RLt(cLevels[k].qty, left) THEN cLevels[k].qty ELSE left)
            /\ n < Len(cLevels) => RLe(cTarget, SumQty(cLevels, n))

\* C5 witness: a three-level book whose third level is taken in part.
C5_Witness ==
    /\ cResult.called
    /\ Len(cLevels) = 3
    /\ Len(cResult.consumed) = 3
    /\ cResult.total_consumed = cTarget
    /\ RLt(cResult.consumed[3][2], cLevels[3].qty)

\* C5 witness of saturation: the target exceeds the book, which is taken whole.
C5_WitnessSaturated ==
    /\ cResult.called
    /\ Len(cLevels) = 3
    /\ RLt(cResult.total_consumed, cTarget)
    /\ cResult.total_consumed = SumQty(cLevels, 3)

-----------------------------------------------------------------------------
(* Inputs of the ask pricer: chains of available legs, with up to          *)
(* MaxStarts asks on the first leg and up to MaxLegLevels on the others.   *)
(*   A. ETH/USDT on binance (10 bps), asks at 2000, into USDT/TRY on       *)
(*      cointr (15 bps), asks at 34.50: one unit needs 2002 of leg 2.      *)
(*   B. Asks at 1000 on binance into asks at 1000 or 2000 on whitebit:     *)
(*      one unit needs 1001 of leg 2, 950.95 being exactly 95% of it.      *)
(*   C. Three legs: asks at 1000 on binance and on whitebit, into asks at  *)
(*      1 on binance: one unit needs 1001 of leg 2 and, when leg 2 fills   *)
(*      it, 1001 x 1001 of leg 3.                                          *)

MaxStarts == 3
MaxLegLevels == 2
MaxDepth == 2

\* One entry of legs_data, as create_synthetic_orderbook builds it for a
\* leg whose fetch gave the book.
LegData(exchange, symbol, book) ==
    [exchange |-> exchange, symbol |-> symbol, side |-> "buy",
     commission_bps |-> IF exchange \in DOMAIN InitCommissionBps
                           THEN InitCommissionBps[exchange] ELSE DEFAULT_COMMISSION_BPS,
     available |-> TRUE, orderbook |-> book]

AsksOnly(asks) == [asks |-> asks, bids |-> <<>>]

TwoLegChain(x1, a1, x2, a2) ==
    << LegData(x1, "ETHUSDT", AsksOnly(a1)),
       LegData(x2, "USDTTRY", AsksOnly(a2)) >>

ThreeLegChain(a1, a2, a3) ==
    << LegData("binance", "ETHUSDT", AsksOnly(a1)),
       LegData("whitebit", "USDTTRY", AsksOnly(a2)),
       LegData("binance", "TRYEUR", AsksOnly(a3)) >>

InitPricer ==
    /\ OrchIdle /\ ValIdle /\ ConIdle /\ MoreIdle
    /\ pDepth \in 1..MaxDepth
    /\ pAsks = NotCalled
    /\ pBids = NotCalled
    /\ \E n1 \in 1..MaxStarts, n2 \in 0..MaxLegLevels :
         \/ \E a1 \in [1..n1 -> Levels({RInt(2000)}, {RInt(1), RInt(2)})],
               a2 \in [1..n2 -> Levels({Rat(69, 2)},
                                       {RInt(1000), RInt(2002), RInt(3000)})] :
               pLegsData = TwoLegChain("binance", a1, "cointr", a2)
         \/ \E a1 \in [1..n1 -> Levels({RInt(1000)}, {RInt(1), RInt(2)})],
               a2 \in [1..n2 -> Levels({RInt(1000), RInt(2000)},
                                       {Rat(1001, 2), Rat(19019, 20), RInt(2002)})] :
               pLegsData = TwoLegChain("binance", a1, "whitebit", a2)
         \/ \E n3 \in 0..MaxLegLevels :
               \E a1 \in [1..n1 -> Levels({RInt(1000)}, {RInt(1), RInt(2)})],
                  a2 \in [1..n2 -> Levels({RInt(1000)}, {RInt(1000), RInt(2002)})],
                  a3 \in [1..n3 -> Levels({RInt(1)}, {RInt(1000000), RInt(2100000)})] :
                  pLegsData = ThreeLegChain(a1, a2, a3)

\* calculate_synthetic_asks(pLegsData, pDepth) is called and returns or raises.
PriceAsks ==
    /\ ~pAsks.called
    /\ pAsks' = [called |-> TRUE] @@ calculate_synthetic_asks(pLegsData, pDepth)
    /\ UNCHANGED <<pLegsData, pDepth, pBids, orchVars, valVars, conVars, moreVars>>

NextPricer == PriceAsks

SpecPricer == InitPricer /\ [][NextPricer]_vars

\* The chain of the claim C3: one ask (2000, 1.0) on binance into asks of
\* cointr that are all at 34.50.
IsC3Chain ==
    /\ Len(pLegsData) = 2
    /\ pLegsData[1].exchange = "binance" /\ pLegsData[2].exchange = "cointr"
    /\ pLegsData[1].orderbook.asks = <<Level(RInt(2000), RInt(1))>>
    /\ Len(pLegsData[2].orderbook.asks) >= 1
    /\ \A k \in 1..Len(pLegsData[2].orderbook.asks) :
          pLegsData[2].orderbook.asks[k].price = Rat(69, 2)

\* 2000 x 1.001 x 34.50 x 1.0015 = 69172.6035, to 8 decimals.
C3Price == <<69172, 60350000>>

\* C3 as claimed: with the second leg quoting the one ask (34.50, 1000),
\* the first synthetic ask has price 2000 x 1.001 x 34.50 x 1.0015 and
\* amount 1.0.
C3_AsClaimed ==
    ( /\ pAsks.called
      /\ IsC3Chain
      /\ pLegsData[2].orderbook.asks = <<Level(Rat(69, 2), RInt(1000))>> )
    => ( /\ pAsks.exc = ""
         /\ Len(pAsks.levels) >= 1
         /\ pAsks.levels[1] = [price |-> C3Price, amount |-> <<1, 0>>] )

\* C3 amended: the chain needs 2000 x 1.001 = 2002 units of the second leg
\* per unit bought.  When the second leg quotes at least 2002 at 34.50 the
\* one synthetic ask has price 2000 x 1.001 x 34.50 x 1.0015 (rounded to 8
\* decimals) and amount 1.0; when it quotes less than 95% of 2002 (the
\* claim's 1000) no synthetic ask is emitted.
C3_CompoundedPrice ==
    (pAsks.called /\ IsC3Chain) =>
        LET a2 == pLegsData[2].orderbook.asks
            liquidity == SumQty(a2, Len(a2))
        IN  /\ pAsks.exc = ""
            /\ RLe(RInt(2002), liquidity) =>
                  pAsks.levels = << [price |-> C3Price, amount |-> <<1, 0>>] >>
            /\ RLt(RMul(liquidity, RInt(100)), RMul(RInt(2002), RInt(95))) =>
                  pAsks.levels = <<>>

\* C3 witness: the second leg quotes 3000 at 34.50 and the ask is emitted.
C3_Witness ==
    /\ pAsks.called
    /\ IsC3Chain
    /\ pLegsData[2].orderbook.asks = <<Level(Rat(69, 2), RInt(3000))>>
    /\ Len(pAsks.levels) = 1

\* Whether the candidate met, at some later leg, a fill below 95% of the
\* amount it asked of that leg.
ShortFill(c) ==
    \E j \in 1..Len(c.steps) :
        RLt(RMul(c.steps[j].fill, RInt(100)), RMul(c.steps[j].need, RInt(95)))

\* The number of candidates among the first m of the trace that were emitted.
RECURSIVE EmittedCount(_, _)
EmittedCount(trace, m) ==
    IF m = 0 THEN 0
    ELSE EmittedCount(trace, m - 1) + (IF trace[m].emit THEN 1 ELSE 0)

\* C4: a starting level for which some later leg fills less than 95% of
\* the amount required from it contributes no synthetic level, and the
\* pricer goes on to the next starting level; a fill of 95% or more is
\* never rejected by the gate.
C4_SlippageGate ==
    pAsks.called =>
        LET starts == Take(pLegsData[1].orderbook.asks, 2 * pDepth)
            tr == pAsks.trace
            N == Len(pLegsData)
        IN  /\ pAsks.exc = ""
            \* every candidate examined is a starting level, in book order
            /\ Len(tr) <= Len(starts)
            /\ \A k \in 1..Len(tr) :
                  /\ tr[k].p0 = starts[k].price /\ tr[k].q0 = starts[k].qty
                  \* what each later leg was asked for and gave
                  /\ Len(tr[k].steps) >= 1 /\ Len(tr[k].steps) <= N - 1
                  /\ tr[k].steps[1].need =
                        RMul(RMul(tr[k].q0, tr[k].p0),
                             RAdd(One, Rat(pLegsData[1].commission_bps, 10000)))
                  /\ \A j \in 1..Len(tr[k].steps) :
                        LET asks == pLegsData[j + 1].orderbook.asks
                            total == SumQty(asks, Len(asks))
                        IN  tr[k].steps[j].fill =
                               (IF RLt(total, tr[k].steps[j].need)
                                   THEN total ELSE tr[k].steps[j].need)
                  \* a short fill drops the candidate, nothing else does
                  /\ ShortFill(tr[k]) => ~tr[k].emit
                  /\ ~ShortFill(tr[k]) => (tr[k].emit /\ Len(tr[k].steps) = N - 1)
            \* only emitted candidates give levels
            /\ Len(pAsks.levels) = EmittedCount(tr, Len(tr))
            \* the loop ends at the end of the starting levels or at depth levels
            /\ Len(tr) < Len(starts) =>
                  (tr[Len(tr)].emit /\ EmittedCount(tr, Len(tr)) = pDepth)

\* C4 witness: the first starting level is dropped at the second leg, the
\* next is emitted on a fill of exactly 95%.
C4_Witness ==
    /\ pAsks.called
    /\ Len(pLegsData) = 2
    /\ Len(pAsks.trace) >= 2
    /\ ~pAsks.trace[1].emit
    /\ pAsks.trace[2].emit
    /\ RMul(pAsks.trace[2].steps[1].fill, RInt(100))
          = RMul(pAsks.trace[2].steps[1].need, RInt(95))
    /\ Len(pAsks.levels) = 1

-----------------------------------------------------------------------------
(* Requests to create_synthetic_orderbook.  The leg lists are chains of    *)
(* 0 .. MaxInputLegs legs (ETH/USDT on binance or okx, then USDT/TRY on    *)
(* cointr, then USDT/TRY on whitebit) and two-leg lists whose second leg   *)
(* is any leg of LegVariants; the depths are 1 .. MaxDepth and one depth   *)
(* above max_depth.  Fetches settle one at a time, in any order.           *)

ChainLegs(n, x1) ==
    [i \in 1..n |->
        IF i = 1 THEN [exchange |-> x1, symbol |-> "ETHUSDT", side |-> "buy"]
        ELSE IF i = 2 THEN [exchange |-> "cointr", symbol |-> "USDTTRY", side |-> "buy"]
        ELSE [exchange |-> "whitebit", symbol |-> "USDTTRY", side |-> "sell"]]

\* A chain of three legs every leg of which the books can fill: ETH/USDT
\* on binance, USDT/EUR on whitebit, EUR/TRY on binance.
ThroughEuro ==
    << [exchange |-> "binance", symbol |-> "ETHUSDT", side |-> "buy"],
       [exchange |-> "whitebit", symbol |-> "USDTEUR", side |-> "buy"],
       [exchange |-> "binance", symbol |-> "EURTRY", side |-> "buy"] >>

Init == OrchIdle /\ ValIdle /\ ConIdle /\ PriIdle /\ MoreIdle

Next ==
    \/ \E d \in (1..MaxDepth) \cup {max_depth, max_depth + 1} :
          \/ \E n \in 0..MaxInputLegs, x1 \in {"binance", "okx"} : Call(ChainLegs(n, x1), d)
          \/ \E v \in LegVariants : Call(<<FillerLeg, v>>, d)
          \/ Call(ThroughEuro, d)
    \/ \E i \in DOMAIN fetch :
          \/ \E outcome \in ServiceOutcomes : FetchReturn(i, outcome)
          \/ FetchRaise(i)
    \/ Assemble
    \/ Return

Spec == Init /\ [][Next]_vars

\* The legs whose fetch failed: it returned None or raised.
FailedLegs == {i \in DOMAIN fetch : fetch[i].kind \in {"none", "exception"}}

\* C1: for a valid leg list with at least one leg whose fetch returned
\* None or raised, the request returns success = true, available = false
\* for exactly the failed legs and true for the others, and empty asks and
\* bids lists.
C1_PartialUnavailability ==
    ( /\ pc = "done"
      /\ validate_legs(legs).ok
      /\ FailedLegs # {} )
    => ( /\ result.called
         /\ result.raised = ""
         /\ result.response.success
         /\ Len(result.response.legs) = Len(legs)
         /\ \A i \in 1..Len(legs) :
               result.response.legs[i].available = (i \notin FailedLegs)
         /\ result.response.asks = <<>>
         /\ result.response.bids = <<>> )

\* C1 witness: of three legs the first gave its book, the fetch of the
\* second returned None and that of the third raised; the request is done.
C1_Witness ==
    /\ pc = "done"
    /\ Len(legs) = 3
    /\ fetch[1].kind = "book" /\ fetch[2] = NoneValue /\ fetch[3] = ExceptionValue
    /\ result.called /\ result.raised = ""
    /\ result.response.legs[1].available
    /\ ~result.response.legs[2].available

\* C2: whatever each fetch gives (a book, None, an exception, a book whose
\* levels are not [price, qty] pairs), the request returns a response: no
\* exception propagates out of create_synthetic_orderbook.
C2_NeverRaises ==
    (pc = "done" /\ result.called) => result.raised = ""

\* C6: when validate_legs rejects the leg list the request returns
\* {success: false, error: <message>, legs: []}, does not raise, and no
\* fetch_leg_orderbook call is issued at any point of the request.
C6_ValidationFailureBeforeIO ==
    ~validate_legs(legs).ok =>
        /\ fetchCalls = <<>>
        /\ fetch = <<>>
        /\ pc # "fetching"
        /\ pc = "done" =>
              /\ result.called
              /\ result.raised = ""
              /\ result.response =
                    [success |-> FALSE, error |-> validate_legs(legs).msg, legs |-> <<>>]

\* C6 witness: a two-leg list whose second leg names an unsupported
\* exchange has been answered.
C6_Witness ==
    /\ pc = "done"
    /\ Len(legs) = 2
    /\ HasKey(legs[2], "exchange") /\ legs[2].exchange = "kraken"
    /\ result.called /\ ~result.response.success
    /\ result.response.error = <<"Leg ", "2", ": ", "unsupported exchange '", "kraken", "'">>

-----------------------------------------------------------------------------
(* Inputs of derive_synthetic_pair: leg lists of 0 .. MaxPairLegs legs     *)
(* over DeriveSymbols.                                                     *)

MaxPairLegs == 3

DeriveSymbols == {"ETHUSDT", "USDTTRY", "BTCUSDT", "USDTEUR", "TRYEUR", "ETH-BTC"}

InitDerive ==
    /\ OrchIdle /\ ValIdle /\ ConIdle /\ PriIdle
    /\ SymIdle /\ FacIdle /\ TwoIdle /\ EndIdle
    /\ \E n \in 0..MaxPairLegs :
          \E f \in [1..n -> DeriveSymbols] :
              dLegs = [i \in 1..n |->
                          [exchange |-> "binance", symbol |-> f[i], side |-> "buy"]]
    /\ dResult = NotCalled

\* derive_synthetic_pair(dLegs) is called and returns.
Derive ==
    /\ ~dResult.called
    /\ dResult' = [called |-> TRUE, value |-> derive_synthetic_pair(dLegs)]
    /\ UNCHANGED <<dLegs, orchVars, valVars, conVars, priVars, symVars, facVars, requests,
                   endVars>>

NextDerive == Derive

SpecDerive == InitDerive /\ [][NextDerive]_vars

\* C11: for a list of at least two legs derive_synthetic_pair returns the
\* base of the first leg's symbol, the quote of the last leg's symbol and
\* their concatenation as the pair, whatever the legs in between:
\* ETHUSDT .. USDTTRY gives (ETHTRY, ETH, TRY), BTCUSDT .. USDTEUR gives
\* (BTCEUR, BTC, EUR).
C11_PairFromFirstAndLast ==
    (dResult.called /\ Len(dLegs) >= 2) =>
        LET first == dLegs[1].symbol
            last == dLegs[Len(dLegs)].symbol
            v == dResult.value
        IN  /\ v[2] = extract_currencies(first)[1]
            /\ v[3] = extract_currencies(last)[2]
            /\ v[1] = v[2] \o v[3]
            /\ (first = "ETHUSDT" /\ last = "USDTTRY") => v = <<"ETHTRY", "ETH", "TRY">>
            /\ (first = "BTCUSDT" /\ last = "USDTEUR") => v = <<"BTCEUR", "BTC", "EUR">>

\* C11 witness: three legs ETHUSDT, BTCUSDT, USDTTRY give (ETHTRY, ETH, TRY).
C11_Witness ==
    /\ dResult.called
    /\ Len(dLegs) = 3
    /\ dLegs[1].symbol = "ETHUSDT" /\ dLegs[2].symbol = "BTCUSDT"
    /\ dLegs[3].symbol = "USDTTRY"
    /\ dResult.value = <<"ETHTRY", "ETH", "TRY">>

-----------------------------------------------------------------------------
(* Two create_synthetic_orderbook requests on the one service object.      *)
(* Each request is a coroutine with its own locals (legs, depth, the       *)
(* gathered results, the response); the service object holds the           *)
(* commission table and the limits.  A coroutine runs without interruption *)
(* up to `await asyncio.gather(...)` and again from gather's return to its *)
(* own return, so a request takes part in the interleaving with: its call, *)
(* the completion of each of its fetches, its assembly, its return.        *)

RequestIds == {"a", "b"}

\* The locals of a request that is not running.
IdleRequest ==
    [pc |-> "idle", legs |-> <<>>, depthArg |-> 0, depth |-> 0,
     fetch |-> <<>>, fetchCalls |-> <<>>, result |-> NotCalled]

\* The locals of a request at its `await asyncio.gather(...)`, or at its
\* return when the validation failed.
StartRequest(l, d) ==
    IF ~validate_legs(l).ok
        THEN [pc |-> "done", legs |-> l, depthArg |-> d, depth |-> d,
              fetch |-> <<>>, fetchCalls |-> <<>>,
              result |-> [called |-> TRUE, raised |-> "",
                          response |-> ValidationFailure(validate_legs(l).msg)]]
    ELSE [pc |-> "fetching", legs |-> l, depthArg |-> d,
          depth |-> ClampDepth(d),
          fetch |-> [i \in 1..Len(l) |-> Pending],
          fetchCalls |-> [i \in 1..Len(l) |->
                            [exchange |-> l[i].exchange, symbol |-> l[i].symbol,
                             limit |-> ClampDepth(d) * 2]],
          result |-> NotCalled]

\* Mutant of FinishRequest: the gathered results are kept on the service
\* object, so a request prices what the fetches of the other one gave
\* whenever the other one has its results.
FinishRequest_SharedResults(rq, other) ==
    [rq EXCEPT
        !.pc = "done",
        !.result = [called |-> TRUE] @@
                   BuildResult(rq.legs,
                               IF /\ Len(other.fetch) = Len(rq.fetch)
                                  /\ \A i \in 1..Len(other.fetch) : other.fetch[i] # Pending
                                   THEN other.fetch ELSE rq.fetch,
                               rq.depth)]

\* Mutant of FinishRequest: the legs are kept on the service object, so a
\* request builds its result for the legs of the other one whenever the
\* other one is under way with as many legs.
FinishRequest_SharedLegs(rq, other) ==
    [rq EXCEPT
        !.pc = "done",
        !.result = [called |-> TRUE] @@
                   BuildResult(IF Len(other.legs) = Len(rq.legs)
                                   THEN other.legs ELSE rq.legs,
                               rq.fetch, rq.depth)]

\* The locals of request rq at its return: lines 371-416 run on rq's own
\* legs, gathered results and depth; `other` is the other request.
FinishRequest(rq, other) ==
    [rq EXCEPT !.pc = "done",
               !.result = [called |-> TRUE] @@ BuildResult(rq.legs, rq.fetch, rq.depth)]

OtherRequest(r) == CHOOSE o \in RequestIds : o # r

TwoUnchanged ==
    UNCHANGED <<orchVars, valVars, conVars, priVars, symVars, derVars, facVars, endVars>>

ReqCall(r, l, d) ==
    /\ requests[r].pc = "idle"
    /\ requests' = [requests EXCEPT ![r] = StartRequest(l, d)]
    /\ TwoUnchanged

ReqFetchReturn(r, i, outcome) ==
    /\ requests[r].pc = "fetching"
    /\ requests[r].fetch[i] = Pending
    /\ requests' = [requests EXCEPT ![r].fetch[i] =
                       fetch_leg_orderbook(requests[r].legs[i].exchange,
                                           requests[r].legs[i].symbol, outcome)]
    /\ TwoUnchanged

ReqFetchRaise(r, i) ==
    /\ requests[r].pc = "fetching"
    /\ requests[r].fetch[i] = Pending
    /\ requests' = [requests EXCEPT ![r].fetch[i] = ExceptionValue]
    /\ TwoUnchanged

ReqAssemble(r) ==
    /\ requests[r].pc = "fetching"
    /\ \A i \in 1..Len(requests[r].legs) : requests[r].fetch[i] # Pending
    /\ requests' = [requests EXCEPT
                       ![r] = FinishRequest(requests[r], requests[OtherRequest(r)])]
    /\ TwoUnchanged

ReqReturn(r) ==
    /\ requests[r].pc = "done"
    /\ requests' = [requests EXCEPT ![r] = IdleRequest]
    /\ TwoUnchanged

InitTwo ==
    /\ OrchIdle /\ ValIdle /\ ConIdle /\ PriIdle
    /\ SymIdle /\ DerIdle /\ FacIdle /\ EndIdle
    /\ requests = [r \in RequestIds |-> IdleRequest]

NextTwo ==
    \E r \in RequestIds :
        \/ \E d \in 1..MaxDepth, n \in 1..2, x1 \in {"binance", "okx"} :
              ReqCall(r, ChainLegs(n, x1), d)
        \/ \E i \in DOMAIN requests[r].fetch :
              \/ \E outcome \in ServiceOutcomes : ReqFetchReturn(r, i, outcome)
              \/ ReqFetchRaise(r, i)
        \/ ReqAssemble(r)
        \/ ReqReturn(r)

SpecTwo == InitTwo /\ [][NextTwo]_vars

-----------------------------------------------------------------------------
(* Inputs of the two pricers together: two-leg chains, binance into        *)
(* whitebit, whose books quote the same levels on both sides.  The levels  *)
(* of leg 1 (one unit at 1000 or 2000, two units at 1000) come in any      *)
(* order; one unit at 1000 needs 1001 of leg 2, whose levels hold 1001 or  *)
(* 4004.                                                                   *)

MaxBookStarts == 2
MaxBookLevels == 2

StartLevels ==
    {Level(RInt(1000), RInt(1)), Level(RInt(2000), RInt(1)), Level(RInt(1000), RInt(2))}

LaterLevels ==
    {Level(RInt(1000), RInt(1001)), Level(RInt(2000), RInt(1001)),
     Level(RInt(1000), RInt(4004))}

BothSides(levels) == [asks |-> levels, bids |-> levels]

InitLevels ==
    /\ OrchIdle /\ ValIdle /\ ConIdle /\ MoreIdle
    /\ pDepth \in 1..MaxDepth
    /\ pAsks = NotCalled
    /\ pBids = NotCalled
    /\ \E n1 \in 1..MaxBookStarts, n2 \in 0..MaxBookLevels :
          \E b1 \in [1..n1 -> StartLevels], b2 \in [1..n2 -> LaterLevels] :
              pLegsData = << LegData("binance", "ETHUSDT", BothSides(b1)),
                             LegData("whitebit", "USDTTRY", BothSides(b2)) >>

\* calculate_synthetic_bids(pLegsData, pDepth) is called and returns or raises.
PriceBids ==
    /\ ~pBids.called
    /\ pBids' = [called |-> TRUE] @@ calculate_synthetic_bids(pLegsData, pDepth)
    /\ UNCHANGED <<pLegsData, pDepth, pAsks, orchVars, valVars, conVars, moreVars>>

NextLevels == PriceAsks \/ PriceBids

SpecLevels == InitLevels /\ [][NextLevels]_vars

\* Whether the prices of the levels never decrease / never increase.
NonDecreasing(levels) ==
    \A k \in 1..(Len(levels) - 1) : ~DecLt(levels[k + 1].price, levels[k].price)

NonIncreasing(levels) ==
    \A k \in 1..(Len(levels) - 1) : ~DecLt(levels[k].price, levels[k + 1].price)

\* C13: for every depth >= 1 and every set of leg books the asks returned
\* are in non-decreasing price order, the bids returned in non-increasing
\* price order, and each list holds at most depth levels.
C13_SortedAndTruncated ==
    /\ (pAsks.called /\ pAsks.exc = "") =>
          (NonDecreasing(pAsks.levels) /\ Len(pAsks.levels) <= pDepth)
    /\ (pBids.called /\ pBids.exc = "") =>
          (NonIncreasing(pBids.levels) /\ Len(pBids.levels) <= pDepth)

\* C13 witness: leg 1 quotes 2000 before 1000; both pricers returned two
\* levels, the asks led by the lower price although it was computed
\* second, the bids led by the higher one.
C13_Witness ==
    /\ pAsks.called /\ pBids.called
    /\ pDepth = 2
    /\ pLegsData[1].orderbook.asks =
          <<Level(RInt(2000), RInt(1)), Level(RInt(1000), RInt(1))>>
    /\ Len(pAsks.levels) = 2 /\ Len(pBids.levels) = 2
    /\ RLt(pAsks.trace[2].chain_price, pAsks.trace[1].chain_price)
    /\ DecLt(pAsks.levels[1].price, pAsks.levels[2].price)
    /\ DecLt(pBids.levels[2].price, pBids.levels[1].price)

\* C14: whatever the order in which the fetches completed, the legs list
\* of the response has one entry per input leg, in input order, entry i
\* carrying the exchange and symbol of leg i and the availability of leg
\* i's own fetch.
C14_LegsMatchedByIndex ==
    ( /\ pc = "done"
      /\ validate_legs(legs).ok
      /\ result.called /\ result.raised = "" )
    => /\ Len(result.response.legs) = Len(legs)
       /\ \A i \in 1..Len(legs) :
             /\ result.response.legs[i].exchange = legs[i].exchange
             /\ result.response.legs[i].symbol = legs[i].symbol
             /\ result.response.legs[i].available = (i \notin FailedLegs)

\* C14 witness: of four legs only the fetch of the second failed, and the
\* response flags the second entry and no other.
C14_Witness ==
    /\ pc = "done"
    /\ Len(legs) = 4
    /\ FailedLegs = {2}
    /\ result.called /\ result.raised = ""
    /\ ~result.response.legs[2].available
    /\ \A i \in {1, 3, 4} : result.response.legs[i].available
    /\ result.response.legs[1].exchange = "binance"
    /\ result.response.legs[2].exchange = "cointr"

-----------------------------------------------------------------------------
(* The request under fair scheduling: a pending fetch eventually settles   *)
(* (each service call ends with a book, None or an exception, its HTTP     *)
(* client carrying a timeout), and the event loop resumes the coroutine    *)
(* once gather has every result.                                           *)

Settle ==
    \E i \in DOMAIN fetch :
        \/ \E outcome \in ServiceOutcomes : FetchReturn(i, outcome)
        \/ FetchRaise(i)

\* The step out of the gather: the only step of Next that takes pc from
\* "fetching" to "done" is Assemble, which is enabled exactly when no
\* fetch is pending (BuildResult is total).
GatherResumes ==
    /\ pc = "fetching"
    /\ \A i \in DOMAIN fetch : fetch[i] # Pending
    /\ pc' = "done"

SpecFair == Init /\ [][Next]_vars /\ WF_vars(Settle) /\ WF_pc(GatherResumes)

\* The pricers run in the step that takes the request from its gather to
\* its end, and only when no fetch is pending.
PricingAfterAllSettled ==
    [][(pc = "fetching" /\ pc' = "done") => \A i \in DOMAIN fetch : fetch[i] # Pending]_vars

\* A fetch that ends with None or an exception leaves every other fetch
\* as it was, pending ones included, and the request at its gather.
FailureLeavesSiblings ==
    [][\A i \in DOMAIN fetch :
          (pc = "fetching" /\ fetch[i] = Pending
             /\ fetch'[i] \in {NoneValue, ExceptionValue})
          => (/\ pc' = "fetching"
              /\ \A j \in DOMAIN fetch : j # i => fetch'[j] = fetch[j])]_vars

\* C15: the pricing starts only after every fetch has settled; a failing
\* fetch neither cancels its siblings nor prevents the response; and a
\* request whose fetches all settle eventually returns its response.
C15_JoinAllThenReturns ==
    /\ PricingAfterAllSettled
    /\ FailureLeavesSiblings
    /\ (pc = "fetching") ~> (pc = "done" /\ result.called /\ result.raised = "")

\* What holds of C15: the same with the request eventually ending, by
\* returning its response or by raising out of a pricer.
C15_JoinAllThenEnds ==
    /\ PricingAfterAllSettled
    /\ FailureLeavesSiblings
    /\ (pc = "fetching") ~> (pc = "done" /\ result.called)

-----------------------------------------------------------------------------
\* The depth the request works with, as the claim states it.
MinDepth(d) == IF d < 100 THEN d ELSE 100

\* C16: a request with valid legs issues exactly one fetch per leg, for
\* that leg's exchange and symbol and for 2 * min(depth, 100) levels; a
\* depth above 100 is treated as 100 without an error, a depth of at most
\* 100 is used unchanged, and neither list of the response has more than
\* 100 levels.
C16_OneFetchPerLegClampedDepth ==
    ( /\ pc \in {"fetching", "done"}
      /\ validate_legs(legs).ok )
    => /\ depth = MinDepth(depthArg)
       /\ Len(fetchCalls) = Len(legs)
       /\ \A i \in 1..Len(legs) :
             fetchCalls[i] = [exchange |-> legs[i].exchange,
                              symbol |-> legs[i].symbol,
                              limit |-> 2 * MinDepth(depthArg)]
       /\ (pc = "done" /\ result.raised = "")
             => /\ result.response.success
                /\ Len(result.response.asks) <= MinDepth(depthArg)
                /\ Len(result.response.bids) <= MinDepth(depthArg)
                /\ MinDepth(depthArg) <= 100

\* A request of depth 101 returned priced levels, its fetches having asked
\* for 200 levels each.
C16_Witness ==
    /\ pc = "done"
    /\ depthArg = 101
    /\ depth = 100
    /\ Len(fetchCalls) = 2
    /\ \A i \in 1..2 : fetchCalls[i].limit = 200
    /\ result.raised = ""
    /\ result.response.success
    /\ result.response.asks # <<>>
    /\ result.response.bids # <<>>

-----------------------------------------------------------------------------
\* C17: consume_levels_for_amount returns filled = 0 and an empty consumed
\* list when levels is empty, whatever the target, and when the target is
\* zero or negative, whatever the levels: no level is consumed.
C17_NothingToConsume ==
    (cResult.called /\ (cLevels = <<>> \/ RLe(cTarget, Zero)))
    => /\ ~cResult.raised
       /\ cResult.total_consumed = Zero
       /\ cResult.consumed = <<>>

\* The consumer was called with a negative target on a book of several
\* levels and returned.
C17_Witness ==
    /\ cResult.called
    /\ RLt(cTarget, Zero)
    /\ Len(cLevels) >= 2
    /\ cResult.consumed = <<>>

\* The consumer was called with a positive target on an empty book.
C17_WitnessEmptyBook ==
    /\ cResult.called
    /\ cLevels = <<>>
    /\ RLt(Zero, cTarget)
    /\ cResult.total_consumed = Zero

-----------------------------------------------------------------------------
(* calculate_commission_factor on its own: the rate table holds, for each  *)
(* exchange of the service, a rate of 0 .. 5 * MaxRateSteps bps (config.py *)
(* reads the rates from the environment), and the factor is asked for an   *)
(* exchange of the table or for one it does not hold.                      *)

MaxRateSteps == 3

Rates == {5 * k : k \in 0..MaxRateSteps}

FactorExchanges == exchange_services \cup {"unknown"}

InitFactor ==
    /\ commission_bps \in [exchange_services -> Rates]
    /\ legs = <<>> /\ depthArg = 0 /\ depth = 0 /\ pc = "idle"
    /\ fetch = <<>> /\ fetchCalls = <<>> /\ result = NotCalled
    /\ ValIdle /\ ConIdle /\ PriIdle
    /\ SymIdle /\ DerIdle /\ TwoIdle /\ EndIdle
    /\ fExchange \in FactorExchanges
    /\ fResult = NotCalled

\* calculate_commission_factor(fExchange) is called and returns.
Factor ==
    /\ ~fResult.called
    /\ fResult' = [called |-> TRUE, value |-> calculate_commission_factor(fExchange)]
    /\ UNCHANGED <<fExchange, orchVars, valVars, conVars, priVars, symVars, derVars, requests,
                   endVars>>

NextFactor == Factor

SpecFactor == InitFactor /\ [][NextFactor]_vars

\* The rate the claim names for an exchange: the configured one, or 10.
ClaimedBps(exchange) ==
    IF exchange \in DOMAIN commission_bps THEN commission_bps[exchange] ELSE 10

\* C18: calculate_commission_factor(exchange) is 1 + bps/10000 for the
\* configured rate of the exchange, or for 10 when the table has no rate
\* for it; with non-negative rates the factor is at least 1 and strictly
\* larger for a larger rate; 10 bps gives 1.001, 15 bps gives 1.0015 and an
\* unknown exchange gives 1.001.
C18_CommissionFactor ==
    fResult.called =>
        /\ fResult.value = RAdd(One, Rat(ClaimedBps(fExchange), 10000))
        /\ RLe(One, fResult.value)
        /\ \A e \in FactorExchanges :
              /\ ClaimedBps(fExchange) < ClaimedBps(e)
                    => RLt(fResult.value, calculate_commission_factor(e))
              /\ ClaimedBps(e) < ClaimedBps(fExchange)
                    => RLt(calculate_commission_factor(e), fResult.value)
        /\ ClaimedBps(fExchange) = 10 => fResult.value = Rat(1001, 1000)
        /\ ClaimedBps(fExchange) = 15 => fResult.value = Rat(2003, 2000)
        /\ fExchange = "unknown" => fResult.value = Rat(1001, 1000)

\* The factor of an exchange without a rate was computed, the table
\* holding a smaller and a larger rate than the default.
C18_Witness ==
    /\ fResult.called
    /\ fExchange = "unknown"
    /\ fResult.value = Rat(1001, 1000)
    /\ commission_bps["binance"] = 5
    /\ commission_bps["cointr"] = 15

\* The factor of an exchange with a configured rate of 15 bps was computed.
C18_WitnessConfigured ==
    /\ fResult.called
    /\ fExchange = "cointr"
    /\ commission_bps["cointr"] = 15
    /\ fResult.value = Rat(2003, 2000)

-----------------------------------------------------------------------------
\* What a request with the legs, depth and gathered fetch results of rq
\* returns when it is the only one: the outcome of Call for invalid legs,
\* that of Assemble otherwise.
AloneResult(rq) ==
    IF ~validate_legs(rq.legs).ok
        THEN [called |-> TRUE, raised |-> "",
              response |-> ValidationFailure(validate_legs(rq.legs).msg)]
    ELSE [called |-> TRUE] @@ BuildResult(rq.legs, rq.fetch, ClampDepth(rq.depthArg))

\* Every settled fetch of rq holds None, an exception, or the book of the
\* exchange and symbol of rq's own leg at that position.
OwnBooks(rq) ==
    \A i \in DOMAIN rq.fetch :
        \/ rq.fetch[i] \in {Pending, NoneValue, ExceptionValue}
        \/ rq.fetch[i] = fetch_leg_orderbook(rq.legs[i].exchange, rq.legs[i].symbol, "book")

\* C19: with two requests interleaved, their fetches overlapping and
\* completing in any order, each request returns exactly what it would
\* return alone with the same fetch outcomes; the books it gathered are
\* those of its own legs, and a step of one request changes nothing of the
\* other.
C19_RequestsIsolated ==
    /\ [](\A r \in RequestIds :
             /\ OwnBooks(requests[r])
             /\ requests[r].pc = "done" => requests[r].result = AloneResult(requests[r]))
    /\ [][\A r \in RequestIds :
             requests'[r] # requests[r]
                => requests'[OtherRequest(r)] = requests[OtherRequest(r)]]_vars

\* Request a has returned priced levels for its Binance chain while request
\* b, for an OKX chain, has one fetch settled and one pending.
C19_Witness ==
    /\ requests["a"].pc = "done"
    /\ requests["a"].legs[1].exchange = "binance"
    /\ requests["a"].result.raised = ""
    /\ requests["a"].result.response.success
    /\ requests["a"].result.response.asks # <<>>
    /\ requests["b"].pc = "fetching"
    /\ requests["b"].legs[1].exchange = "okx"
    /\ Len(requests["b"].legs) = 2
    /\ requests["b"].fetch[1].kind = "book"
    /\ requests["b"].fetch[2] = Pending

-----------------------------------------------------------------------------
(* extract_currencies on its own: symbols made of a leading part, an       *)
(* optional separator and a trailing part, in upper or lower case, some    *)
(* ending in a known quote currency and some not, of 0 to 9 characters.    *)

SymbolHeads == {"", "T", "AB", "ETH", "eth", "btc", "USDT", "ABCD"}
SymbolSeparators == {"", "-", "_"}
SymbolTails == {"", "DE", "XYZ", "USDT", "usdt", "TRY", "usd", "EUR", "BTC", "ETH"}

InitExtract ==
    /\ OrchIdle /\ ValIdle /\ ConIdle /\ PriIdle
    /\ DerIdle /\ FacIdle /\ TwoIdle /\ EndIdle
    /\ \E h \in SymbolHeads, sep \in SymbolSeparators, t \in SymbolTails :
          xSymbol = h \o sep \o t
    /\ xResult = NotCalled

\* extract_currencies(xSymbol) is called and returns.
Extract ==
    /\ ~xResult.called
    /\ xResult' = [called |-> TRUE, value |-> extract_currencies(xSymbol)]
    /\ UNCHANGED <<xSymbol, orchVars, valVars, conVars, priVars, derVars, facVars, requests,
                   endVars>>

NextExtract == Extract

SpecExtract == InitExtract /\ [][NextExtract]_vars

\* The known quotes a symbol may be split at: those it ends with, leaving a
\* base of at least 2 characters.
SplitQuotes(symbol) ==
    {k \in 1..Len(quote_currencies) :
        /\ EndsWith(symbol, quote_currencies[k])
        /\ Len(symbol) - Len(quote_currencies[k]) >= 2}

FirstSplitQuote(symbol) ==
    quote_currencies[CHOOSE k \in SplitQuotes(symbol) : \A j \in SplitQuotes(symbol) : k <= j]

\* symbol[:-n] and symbol[-n:].
DropLast(symbol, n) == IF Len(symbol) > n THEN SubSeq(symbol, 1, Len(symbol) - n) ELSE ""
Last(symbol, n) ==
    IF Len(symbol) > n THEN SubSeq(symbol, Len(symbol) - n + 1, Len(symbol)) ELSE symbol

\* The split at the first known quote that leaves a base of 2 characters
\* or more.
SplitAtKnownQuote(symbol) ==
    <<DropLast(symbol, Len(FirstSplitQuote(symbol))), FirstSplitQuote(symbol)>>

\* C20: extract_currencies splits the normalised symbol at a known quote
\* suffix exactly when the base left has at least 2 characters; every
\* other symbol is split by the fixed-width fallback, quote = its last 3
\* characters and base = the rest, so that it still gets a non-empty
\* quote.
C20_FallbackForEveryOtherSymbol ==
    xResult.called =>
        IF SplitQuotes(NormaliseFrom(xSymbol, 1)) # {}
            THEN xResult.value = SplitAtKnownQuote(NormaliseFrom(xSymbol, 1))
        ELSE /\ xResult.value = <<DropLast(NormaliseFrom(xSymbol, 1), 3),
                                  Last(NormaliseFrom(xSymbol, 1), 3)>>
             /\ xResult.value[2] # ""

\* What holds of C20: the same, the fallback being taken only by symbols
\* of 6 characters or more; a shorter symbol that cannot be split at a
\* known quote is returned whole, with an empty quote.
C20_FallbackFromSixCharacters ==
    xResult.called =>
        IF SplitQuotes(NormaliseFrom(xSymbol, 1)) # {}
            THEN xResult.value = SplitAtKnownQuote(NormaliseFrom(xSymbol, 1))
        ELSE IF Len(NormaliseFrom(xSymbol, 1)) >= 6
            THEN /\ xResult.value = <<DropLast(NormaliseFrom(xSymbol, 1), 3),
                                      Last(NormaliseFrom(xSymbol, 1), 3)>>
                 /\ xResult.value[2] # ""
        ELSE xResult.value = <<NormaliseFrom(xSymbol, 1), "">>

\* T-USDT was decomposed: its base before USDT has one character and it
\* has five characters without the separator.
C20_ShortSymbolDecomposed ==
    /\ xResult.called
    /\ xSymbol = "T-USDT"
    /\ xResult.value = <<"TUSDT", "">>

-----------------------------------------------------------------------------
\* str.lower() of one character, and of a string from its k-th character on.
LowerChar(ch) ==
    IF \E k \in 1..Len(UpperCase) : SubSeq(UpperCase, k, k) = ch
        THEN LET k == CHOOSE j \in 1..Len(UpperCase) : SubSeq(UpperCase, j, j) = ch
             IN  SubSeq(LowerCase, k, k)
        ELSE ch

RECURSIVE LowerFrom(_, _)
LowerFrom(symbol, k) ==
    IF k > Len(symbol) THEN ""
    ELSE LowerChar(SubSeq(symbol, k, k)) \o LowerFrom(symbol, k + 1)

\* The symbol with the separator sep put after its k-th character.
WithSeparator(symbol, k, sep) ==
    SubSeq(symbol, 1, k) \o sep \o SubSeq(symbol, k + 1, Len(symbol))

\* Other spellings of a symbol: in lower case, and with a '-' or a '_'
\* at any place.
Respellings(symbol) ==
    {LowerFrom(symbol, 1)}
        \cup {WithSeparator(symbol, k, sep) : k \in 0..Len(symbol), sep \in {"-", "_"}}

\* C21: extract_currencies gives the same (base, quote) for a symbol in
\* any letter case and with or without '-' and '_' separators; ETH-USDT,
\* eth_usdt and ETHUSDT give (ETH, USDT); and base and quote put together
\* are the upper-cased, separator-free symbol.
C21_CaseAndSeparatorsIgnored ==
    xResult.called =>
        /\ \A other \in Respellings(xSymbol) : extract_currencies(other) = xResult.value
        /\ xSymbol \in {"ETH-USDT", "eth_usdt", "ETHUSDT"} => xResult.value = <<"ETH", "USDT">>
        /\ xResult.value[1] \o xResult.value[2] = NormaliseFrom(xSymbol, 1)

\* eth_usdt was decomposed into ETH and USDT.
C21_Witness ==
    /\ xResult.called
    /\ xSymbol = "eth_usdt"
    /\ xResult.value = <<"ETH", "USDT">>

-----------------------------------------------------------------------------
(* The reference of the ask side, in closed form: what a leg's ask levels  *)
(* give for a target, and the price and amount of the chain from a         *)
(* starting level (p0, q0).                                                *)

RMax(a, b) == IF RLt(a, b) THEN b ELSE a

\* The quantity the k-th level gives to a target: what is left of the
\* target after the levels before it, at most the level's quantity.
RefTaken(levels, k, target) ==
    RMax(Zero, RMin(levels[k].qty, RSub(target, SumQty(levels, k - 1))))

\* The quantity and the cost the first m levels give to a target.
RECURSIVE RefFilled(_, _, _)
RefFilled(levels, m, target) ==
    IF m = 0 THEN Zero
    ELSE RAdd(RefFilled(levels, m - 1, target), RefTaken(levels, m, target))

RECURSIVE RefCost(_, _, _)
RefCost(levels, m, target) ==
    IF m = 0 THEN Zero
    ELSE RAdd(RefCost(levels, m - 1, target),
              RMul(levels[m].price, RefTaken(levels, m, target)))

RefFactor(leg) == RAdd(One, Rat(leg.commission_bps, 10000))

\* The chain from leg i on: r holds the target of leg i, the price and the
\* amount so far; e1 is p0 x cf(leg 1).  RefLeg is leg i with the quantity
\* it consumes and its effective price.
RECURSIVE RefChain(_, _, _, _)
RefLeg(legs_data, i, e1, r, consumed, effective) ==
    RefChain(legs_data, i + 1, e1,
             [target |-> RMul(consumed, effective),
              price |-> RMul(r.price, effective),
              amount |-> RMin(r.amount, RDiv(consumed, e1))])

RefLegFilled(legs_data, i, e1, r, asks, consumed) ==
    RefLeg(legs_data, i, e1, r, consumed,
           RMul(RDiv(RefCost(asks, Len(asks), r.target), consumed),
                RefFactor(legs_data[i])))

RefChain(legs_data, i, e1, r) ==
    IF i > Len(legs_data) THEN r
    ELSE RefLegFilled(legs_data, i, e1, r, legs_data[i].orderbook.asks,
                      RefFilled(legs_data[i].orderbook.asks,
                                Len(legs_data[i].orderbook.asks), r.target))

RefFrom(legs_data, p0, q0, e1) ==
    RefChain(legs_data, 2, e1,
             [target |-> RMul(q0, e1), price |-> e1, amount |-> q0])

RefRounded(r) == [price |-> Round8(r.price), amount |-> Round8(r.amount)]

\* The reference level of the starting level (p0, q0).
RefLevel(legs_data, p0, q0) ==
    RefRounded(RefFrom(legs_data, p0, q0, RMul(p0, RefFactor(legs_data[1]))))

\* C22: every synthetic ask emitted for a starting level (p0, q0) of leg 1
\* is the reference level over the legs in input order: price p0 x cf(1)
\* times, for each later leg, the quantity-weighted average price of the
\* asks it consumes times its commission factor, leg 2 being asked for
\* q0 x p0 x cf(1) and each later leg for what the leg before consumed
\* times that leg's effective price; amount the least of q0 and of each
\* leg's consumed quantity over p0 x cf(1); both rounded to 8 decimals.
C22_AskEqualsReference ==
    pAsks.called =>
        LET emitted == {k \in 1..Len(pAsks.trace) : pAsks.trace[k].emit}
            ref == [k \in emitted |->
                       RefLevel(pLegsData, pLegsData[1].orderbook.asks[k].price,
                                pLegsData[1].orderbook.asks[k].qty)]
        IN  /\ pAsks.exc = ""
            /\ \A k \in emitted :
                  \E j \in 1..Len(pAsks.levels) : pAsks.levels[j] = ref[k]
            /\ \A j \in 1..Len(pAsks.levels) :
                  \E k \in emitted : pAsks.levels[j] = ref[k]

\* A 3-leg chain emitted an ask whose amount is below the quantity of its
\* starting level: a later leg was the bottleneck.
C22_Witness ==
    /\ pAsks.called
    /\ Len(pLegsData) = 3
    /\ Len(pAsks.levels) >= 1
    /\ \E k \in 1..Len(pAsks.trace) :
          /\ pAsks.trace[k].emit
          /\ RLt(pAsks.trace[k].current_amount, pAsks.trace[k].q0)

\* A 2-leg chain emitted an ask for which leg 2 gave from two levels of
\* different prices.
C22_WitnessWeightedAverage ==
    /\ pAsks.called
    /\ Len(pLegsData) = 2
    /\ Len(pLegsData[2].orderbook.asks) = 2
    /\ pLegsData[2].orderbook.asks[1].price # pLegsData[2].orderbook.asks[2].price
    /\ \E k \in 1..Len(pAsks.trace) :
          /\ pAsks.trace[k].emit
          /\ RLt(pLegsData[2].orderbook.asks[1].qty, pAsks.trace[k].steps[1].fill)

-----------------------------------------------------------------------------
(* calculate_synthetic_bids on its own: binance into whitebit, up to       *)
(* MaxBidStarts bids of 1 or 2 units at 1000 on leg 1 (proceeds 1001 or    *)
(* 2002), up to MaxBidLevels bids on leg 2 holding 500.5, 950.95 or 2002   *)
(* (1901.9 being exactly 95% of 2002), so that with depth 1 the bids of    *)
(* leg 2 beyond the first two can decide whether the book fills.           *)

MaxBidStarts == 3
MaxBidLevels == 3

BidStartLevels == {Level(RInt(1000), RInt(1)), Level(RInt(1000), RInt(2))}

BidLaterLevels ==
    {Level(RInt(1000), Rat(1001, 2)), Level(RInt(2000), Rat(19019, 20)),
     Level(RInt(1000), RInt(2002))}

BidsOnly(bids) == [asks |-> <<>>, bids |-> bids]

InitBids ==
    /\ OrchIdle /\ ValIdle /\ ConIdle /\ MoreIdle
    /\ pDepth \in 1..MaxDepth
    /\ pAsks = NotCalled
    /\ pBids = NotCalled
    /\ \E n1 \in 1..MaxBidStarts, n2 \in 0..MaxBidLevels :
          \E b1 \in [1..n1 -> BidStartLevels], b2 \in [1..n2 -> BidLaterLevels] :
              pLegsData = << LegData("binance", "ETHUSDT", BidsOnly(b1)),
                             LegData("whitebit", "USDTTRY", BidsOnly(b2)) >>

NextBids == PriceBids

SpecBids == InitBids /\ [][NextBids]_vars

\* The reference of the bid side for the k-th bid of leg 1 against the bid
\* levels `later` of leg 2: the proceeds, what leg 2 fills of them, whether
\* that is at least 95%, and the synthetic bid.
BidEffective(k) ==
    RMul(pLegsData[1].orderbook.bids[k].price, RefFactor(pLegsData[1]))

BidProceeds(k) == RMul(pLegsData[1].orderbook.bids[k].qty, BidEffective(k))

BidFilled(later, k) == RefFilled(later, Len(later), BidProceeds(k))

BidPasses(later, k) ==
    RLe(RMul(BidProceeds(k), RInt(95)), RMul(BidFilled(later, k), RInt(100)))

RefBidLevel(later, k) ==
    [price |-> Round8(RMul(BidEffective(k),
                           RMul(RDiv(RefCost(later, Len(later), BidProceeds(k)),
                                     BidFilled(later, k)),
                                RefFactor(pLegsData[2])))),
     amount |-> Round8(RMin(pLegsData[1].orderbook.bids[k].qty,
                            RDiv(BidFilled(later, k), BidEffective(k))))]

\* The number of the first m bids of leg 1 that leg 2 fills to 95%.
RECURSIVE BidPassCount(_, _)
BidPassCount(later, m) ==
    IF m = 0 THEN 0
    ELSE BidPassCount(later, m - 1) + (IF BidPasses(later, m) THEN 1 ELSE 0)

\* The bids of leg 1 the pricer comes to: among the first 2 x depth, and
\* with fewer than depth synthetic bids emitted before them.
BidExamined(later, k) ==
    /\ k <= Len(pLegsData[1].orderbook.bids)
    /\ k <= 2 * pDepth
    /\ BidPassCount(later, k - 1) < pDepth

\* The statement of C23 with `later` as the bid levels of leg 2 that count:
\* the synthetic bids are the reference bids of the bids of leg 2 fills to
\* 95%, one for each and no other.
BidsAsReference(later) ==
    /\ pBids.exc = ""
    /\ \A k \in 1..Len(pLegsData[1].orderbook.bids) :
          (BidExamined(later, k) /\ BidPasses(later, k)) =>
             \E j \in 1..Len(pBids.levels) : pBids.levels[j] = RefBidLevel(later, k)
    /\ \A j \in 1..Len(pBids.levels) :
          \E k \in 1..Len(pLegsData[1].orderbook.bids) :
             /\ BidExamined(later, k) /\ BidPasses(later, k)
             /\ pBids.levels[j] = RefBidLevel(later, k)
    /\ Len(pBids.levels) =
          Cardinality({k \in 1..Len(pLegsData[1].orderbook.bids) :
                          BidExamined(later, k) /\ BidPasses(later, k)})

\* C23 as claimed: a bid (p0, q0) of leg 1 the pricer comes to yields a
\* synthetic bid exactly when the bid levels of leg 2 can fill at least 95%
\* of q0 x p0 x cf(1), with price p0 x cf(1) x weighted average of the
\* consumed levels x cf(2) and amount min(q0, consumed / (p0 x cf(1))).
C23_AsClaimed ==
    pBids.called => BidsAsReference(pLegsData[2].orderbook.bids)

\* C23 amended: the same with the first 2 x depth bid levels of leg 2 in
\* place of its bid levels: deeper bids of leg 2 are never consumed.
C23_BidEqualsReference ==
    pBids.called => BidsAsReference(Take(pLegsData[2].orderbook.bids, 2 * pDepth))

\* With depth 1 a bid of leg 1 was dropped that the three bids of leg 2
\* fill together and the first two do not.
C23_Witness ==
    /\ pBids.called
    /\ pDepth = 1
    /\ Len(pLegsData[1].orderbook.bids) = 1
    /\ Len(pLegsData[2].orderbook.bids) = 3
    /\ BidPasses(pLegsData[2].orderbook.bids, 1)
    /\ ~BidPasses(Take(pLegsData[2].orderbook.bids, 2), 1)
    /\ pBids.levels = <<>>

\* A bid of leg 1 was priced from two bids of leg 2 of different prices,
\* which fill exactly 95% of its proceeds.
C23_WitnessBoundary ==
    /\ pBids.called
    /\ Len(pBids.levels) >= 1
    /\ \E k \in 1..Len(pLegsData[1].orderbook.bids) :
          /\ BidProceeds(k) = RInt(2002)
          /\ BidFilled(Take(pLegsData[2].orderbook.bids, 2 * pDepth), k) = Rat(19019, 10)
          /\ \E j \in 1..Len(pBids.levels) :
                pBids.levels[j] = RefBidLevel(Take(pLegsData[2].orderbook.bids, 2 * pDepth), k)

-----------------------------------------------------------------------------
\* C24: for a chain of 3 to 6 legs calculate_synthetic_bids returns the
\* empty list whatever the legs' books hold, also when every leg is
\* available and the ask side of the request has levels; the request
\* reports success = true with an empty bids list.
C24_NoBidsBeyondTwoLegs ==
    ( /\ pc = "done"
      /\ validate_legs(legs).ok
      /\ Len(legs) >= 3 )
    => /\ calculate_synthetic_bids(BuildLegsData(legs, fetch), depth)
             = [exc |-> "", levels |-> <<>>]
       /\ result.raised = "" =>
             /\ result.response.success
             /\ result.response.bids = <<>>

\* A request over three legs, all fetched, returned ask levels and no bid.
C24_Witness ==
    /\ pc = "done"
    /\ Len(legs) = 3
    /\ FailedLegs = {}
    /\ result.raised = ""
    /\ result.response.success
    /\ result.response.asks # <<>>
    /\ result.response.bids = <<>>

\* A request over six legs, all fetched, returned: neither list has a level.
C24_WitnessSixLegs ==
    /\ pc = "done"
    /\ Len(legs) = 6
    /\ FailedLegs = {}
    /\ result.raised = ""
    /\ result.response.success
    /\ result.response.bids = <<>>

-----------------------------------------------------------------------------
\* Whether the chain from leg i on passes every gate for the target of leg
\* i: each leg fills at least 95% of what it is asked for.
RECURSIVE RefPassesFrom(_, _, _)
RefPassesLeg(legs_data, i, target, asks, consumed) ==
    /\ RLt(Zero, consumed)
    /\ RLe(RMul(target, RInt(95)), RMul(consumed, RInt(100)))
    /\ RefPassesFrom(legs_data, i + 1,
                     RMul(consumed,
                          RMul(RDiv(RefCost(asks, Len(asks), target), consumed),
                               RefFactor(legs_data[i]))))

RefPassesFrom(legs_data, i, target) ==
    IF i > Len(legs_data) THEN TRUE
    ELSE RefPassesLeg(legs_data, i, target, legs_data[i].orderbook.asks,
                      RefFilled(legs_data[i].orderbook.asks,
                                Len(legs_data[i].orderbook.asks), target))

\* The k-th ask level of leg 1 is a passing candidate.
AskPasses(k) ==
    RefPassesFrom(pLegsData, 2,
                  RMul(pLegsData[1].orderbook.asks[k].qty,
                       RMul(pLegsData[1].orderbook.asks[k].price, RefFactor(pLegsData[1]))))

\* The first 2 x depth ask levels of leg 1, and the passing ones of them.
AskStarts ==
    1..(IF 2 * pDepth < Len(pLegsData[1].orderbook.asks)
           THEN 2 * pDepth ELSE Len(pLegsData[1].orderbook.asks))

PassingStarts == {k \in AskStarts : AskPasses(k)}

\* Of the passing candidates, those that fewer than depth passing
\* candidates precede.
FirstOf(passing) ==
    {k \in passing : Cardinality({j \in passing : j < k}) < pDepth}

AskRefLevel(k) ==
    RefLevel(pLegsData, pLegsData[1].orderbook.asks[k].price,
             pLegsData[1].orderbook.asks[k].qty)

\* C25: calculate_synthetic_asks examines at most the first 2 x depth ask
\* levels of leg 1, in book order, and stops at the depth-th emitted level:
\* its result holds exactly the first min(depth, number of passing
\* candidates among those levels) passing candidates, so it is never
\* longer than min(depth, number of ask levels of leg 1), and a passing
\* candidate is left out only when depth passing candidates precede it.
C25_FirstPassingCandidates ==
    pAsks.called =>
        LET passing == PassingStarts
            first == FirstOf(passing)
            ref == [k \in first |-> AskRefLevel(k)]
        IN  /\ pAsks.exc = ""
            /\ Len(pAsks.trace) <= Cardinality(AskStarts)
            /\ \A k \in 1..Len(pAsks.trace) :
                  /\ pAsks.trace[k].p0 = pLegsData[1].orderbook.asks[k].price
                  /\ pAsks.trace[k].q0 = pLegsData[1].orderbook.asks[k].qty
                  /\ pAsks.trace[k].emit <=> k \in first
            /\ first \subseteq 1..Len(pAsks.trace)
            /\ Len(pAsks.levels) =
                  (IF pDepth < Cardinality(passing) THEN pDepth ELSE Cardinality(passing))
            /\ Len(pAsks.levels) <= pDepth
            /\ Len(pAsks.levels) <= Len(pLegsData[1].orderbook.asks)
            /\ \A k \in first :
                  \E j \in 1..Len(pAsks.levels) : pAsks.levels[j] = ref[k]
            /\ \A j \in 1..Len(pAsks.levels) :
                  \E k \in first : pAsks.levels[j] = ref[k]

\* With depth 1 and three ask levels on leg 1, the first two were dropped
\* by the gate and the third, which passes, was not examined.
C25_Witness ==
    /\ pAsks.called
    /\ pDepth = 1
    /\ Len(pLegsData[1].orderbook.asks) = 3
    /\ ~AskPasses(1) /\ ~AskPasses(2) /\ AskPasses(3)
    /\ Len(pAsks.trace) = 2
    /\ pAsks.levels = <<>>

\* With depth 1 the first ask level of leg 1 was dropped, the second was
\* emitted and ended the loop.
C25_WitnessStopsAtDepth ==
    /\ pAsks.called
    /\ pDepth = 1
    /\ Len(pLegsData[1].orderbook.asks) = 3
    /\ ~AskPasses(1) /\ AskPasses(2)
    /\ Len(pAsks.trace) = 2
    /\ Len(pAsks.levels) = 1


-----------------------------------------------------------------------------
(* Every starting level consumes the later legs' books from the top.  The  *)
(* pricers are compared with themselves run on one starting level at a    *)
(* time: the books of the later legs are the same in every such run, so   *)
(* nothing a run consumed can be missing in the next.                      *)

\* legs_data with the k-th ask (bid) of leg 1 as the only one of leg 1.
WithOnlyAsk(legs_data, k) ==
    [legs_data EXCEPT ![1].orderbook.asks = <<legs_data[1].orderbook.asks[k]>>]

WithOnlyBid(legs_data, k) ==
    [legs_data EXCEPT ![1].orderbook.bids = <<legs_data[1].orderbook.bids[k]>>]

\* The levels of the first n starting levels, each priced alone, in book
\* order.
RECURSIVE AloneAsks(_, _, _)
AloneAsks(legs_data, dpt, n) ==
    IF n = 0 THEN <<>>
    ELSE AloneAsks(legs_data, dpt, n - 1)
            \o calculate_synthetic_asks(WithOnlyAsk(legs_data, n), dpt).levels

RECURSIVE AloneBids(_, _, _)
AloneBids(legs_data, dpt, n) ==
    IF n = 0 THEN <<>>
    ELSE AloneBids(legs_data, dpt, n - 1)
            \o calculate_synthetic_bids(WithOnlyBid(legs_data, n), dpt).levels

\* The number of starting levels a call may examine.
StartCount(levels, dpt) == IF 2 * dpt < Len(levels) THEN 2 * dpt ELSE Len(levels)

\* C26: the level computed for a starting level depends only on that level,
\* the later legs' books and the commission factors: the asks (bids)
\* returned are the first depth levels, in book order of their starting
\* levels, that the pricer gives for each of the first 2 x depth starting
\* levels priced alone against the same books, sorted by price.
C26_StartingLevelsIndependent ==
    /\ pAsks.called =>
          /\ pAsks.exc = ""
          /\ pAsks.levels =
                SortAscending(Take(AloneAsks(pLegsData, pDepth,
                                   StartCount(pLegsData[1].orderbook.asks, pDepth)),
                                   pDepth))
    /\ pBids.called =>
          /\ pBids.exc = ""
          /\ pBids.levels =
                SortDescending(Take(AloneBids(pLegsData, pDepth,
                                    StartCount(pLegsData[1].orderbook.bids, pDepth)),
                                    pDepth))

\* Both pricers have emitted two levels from two starting levels that each
\* need more than half of what leg 2 holds on that side.
C26_Witness ==
    /\ pAsks.called /\ pBids.called
    /\ Len(pAsks.levels) = 2
    /\ Len(pBids.levels) = 2
    /\ Len(pAsks.trace) = 2
    /\ \A k \in 1..2 :
          /\ pAsks.trace[k].emit
          /\ RLt(SumQty(pLegsData[2].orderbook.asks, Len(pLegsData[2].orderbook.asks)),
                 RMul(RInt(2), pAsks.trace[k].steps[1].need))
          /\ RLt(SumQty(pLegsData[2].orderbook.bids, Len(pLegsData[2].orderbook.bids)),
                 RMul(RInt(2), RMul(pLegsData[1].orderbook.bids[k].qty,
                                    RMul(pLegsData[1].orderbook.bids[k].price,
                                         calculate_commission_factor(pLegsData[1].exchange)))))

-----------------------------------------------------------------------------
(* The amounts of the levels.  Chains of two and three legs, binance into  *)
(* whitebit (into binance), quoting the same levels on both sides: leg 1   *)
(* holds 1 or 2 units at 1000, which need 1001 or 2002 of leg 2; leg 2     *)
(* holds 500.5, 950.95 (95% of 1001), 1000 or 2002 at 1000; leg 3 holds    *)
(* 1000000 or 2100000 at 1.                                                *)

AmountStarts == Levels({RInt(1000)}, {RInt(1), RInt(2)})

AmountLaterLevels ==
    Levels({RInt(1000)}, {Rat(1001, 2), Rat(19019, 20), RInt(2002)})

InitAmounts ==
    /\ OrchIdle /\ ValIdle /\ ConIdle /\ MoreIdle
    /\ pDepth \in 1..MaxDepth
    /\ pAsks = NotCalled
    /\ pBids = NotCalled
    /\ \E n1 \in 1..MaxBookStarts, n2 \in 0..MaxBookLevels :
         \/ \E b1 \in [1..n1 -> AmountStarts], b2 \in [1..n2 -> AmountLaterLevels] :
               pLegsData = << LegData("binance", "ETHUSDT", BothSides(b1)),
                              LegData("whitebit", "USDTTRY", BothSides(b2)) >>
         \/ \E n3 \in 0..MaxBookLevels :
               \E b1 \in [1..n1 -> AmountStarts],
                  b2 \in [1..n2 -> Levels({RInt(1000)}, {RInt(1000), RInt(2002)})],
                  b3 \in [1..n3 -> Levels({RInt(1)}, {RInt(1000000), RInt(2100000)})] :
                  pLegsData = << LegData("binance", "ETHUSDT", BothSides(b1)),
                                 LegData("whitebit", "USDTTRY", BothSides(b2)),
                                 LegData("binance", "TRYEUR", BothSides(b3)) >>

NextAmounts == PriceAsks \/ PriceBids

SpecAmounts == InitAmounts /\ [][NextAmounts]_vars

\* The candidate calculate_synthetic_bids computes for the k-th bid of leg 1.
BidCandidateOf(k) ==
    BidCandidate(pLegsData, pLegsData[1].orderbook.bids[k],
                 Take(pLegsData[2].orderbook.bids, 2 * pDepth))

\* q0 * 0.95 <= amount <= q0
WithinFivePercent(amount, q0) ==
    RLe(amount, q0) /\ RLe(RMul(q0, Rat(95, 100)), amount)

\* C27: the amount of a synthetic ask or bid level, before rounding, never
\* exceeds the quantity q0 of its starting level, whatever the length of
\* the chain; on a chain of two legs it is also at least 0.95 x q0.
C27_AmountWithinStartingQuantity ==
    /\ pAsks.called =>
          /\ pAsks.exc = ""
          /\ Len(pAsks.levels) =
                Cardinality({k \in 1..Len(pAsks.trace) : pAsks.trace[k].emit})
          /\ \A k \in 1..Len(pAsks.trace) :
                pAsks.trace[k].emit =>
                   /\ pAsks.trace[k].q0 = pLegsData[1].orderbook.asks[k].qty
                   /\ RLe(pAsks.trace[k].current_amount, pAsks.trace[k].q0)
                   /\ Len(pLegsData) = 2 =>
                         WithinFivePercent(pAsks.trace[k].current_amount,
                                           pAsks.trace[k].q0)
    /\ pBids.called =>
          /\ pBids.exc = ""
          /\ Len(pLegsData) # 2 => pBids.levels = <<>>
          /\ Len(pLegsData) = 2 =>
                /\ \A k \in 1..StartCount(pLegsData[1].orderbook.bids, pDepth) :
                      BidCandidateOf(k).emit =>
                         WithinFivePercent(BidCandidateOf(k).amount,
                                           pLegsData[1].orderbook.bids[k].qty)
                /\ \A j \in 1..Len(pBids.levels) :
                      \E k \in 1..StartCount(pLegsData[1].orderbook.bids, pDepth) :
                         /\ BidCandidateOf(k).emit
                         /\ pBids.levels[j].amount = Round8(BidCandidateOf(k).amount)

\* Both pricers have emitted, on two legs, a level whose amount is below
\* the quantity of its starting level.
C27_Witness ==
    /\ pAsks.called /\ pBids.called
    /\ Len(pLegsData) = 2
    /\ \E k \in 1..Len(pAsks.trace) :
          /\ pAsks.trace[k].emit
          /\ RLt(pAsks.trace[k].current_amount, pAsks.trace[k].q0)
    /\ pBids.levels # <<>>
    /\ \E k \in 1..StartCount(pLegsData[1].orderbook.bids, pDepth) :
          /\ BidCandidateOf(k).emit
          /\ RLt(BidCandidateOf(k).amount, pLegsData[1].orderbook.bids[k].qty)

\* An ask of a three-leg chain whose amount the second leg cut below q0.
C27_WitnessThreeLegs ==
    /\ pAsks.called
    /\ Len(pLegsData) = 3
    /\ \E k \in 1..Len(pAsks.trace) :
          /\ pAsks.trace[k].emit
          /\ RLt(pAsks.trace[k].current_amount, pAsks.trace[k].q0)

-----------------------------------------------------------------------------
(* The sign of the levels returned.  Every book here has positive prices  *)
(* and quantities.  Two-leg chains as above, and three-leg chains whose    *)
(* first leg asks 1000000 for 0.001 or 0.002 units, whose second leg      *)
(* sells at 1/2002000 and whose third at 1: the third leg's fill over the  *)
(* effective price of leg 1 is then 1/2000000000 or 1/1000000000 of a      *)
(* unit.                                                                   *)

SmallStarts == Levels({RInt(1000000)}, {Rat(1, 1000), Rat(2, 1000)})
SmallSecondLevels == Levels({Rat(1, 2002000)}, {RInt(1001), RInt(2002)})
SmallThirdLevels == Levels({RInt(1)}, {RInt(1), RInt(2)})

PositiveLevels(levels) ==
    \A k \in 1..Len(levels) :
        RLt(Zero, levels[k].price) /\ RLt(Zero, levels[k].qty)

PositiveBooks(legs_data) ==
    \A i \in 1..Len(legs_data) :
        /\ PositiveLevels(legs_data[i].orderbook.asks)
        /\ PositiveLevels(legs_data[i].orderbook.bids)

InitSmall ==
    /\ OrchIdle /\ ValIdle /\ ConIdle /\ MoreIdle
    /\ pDepth \in 1..MaxDepth
    /\ pAsks = NotCalled
    /\ pBids = NotCalled
    /\ \E n1 \in 1..MaxBookStarts, n2 \in 0..MaxBookLevels :
         \/ \E b1 \in [1..n1 -> AmountStarts], b2 \in [1..n2 -> AmountLaterLevels] :
               pLegsData = << LegData("binance", "ETHUSDT", BothSides(b1)),
                              LegData("whitebit", "USDTTRY", BothSides(b2)) >>
         \/ \E n3 \in 0..MaxBookLevels :
               \E b1 \in [1..n1 -> SmallStarts],
                  b2 \in [1..n2 -> SmallSecondLevels],
                  b3 \in [1..n3 -> SmallThirdLevels] :
                  pLegsData = << LegData("binance", "ETHUSDT", BothSides(b1)),
                                 LegData("whitebit", "USDTTRY", BothSides(b2)),
                                 LegData("binance", "TRYEUR", BothSides(b3)) >>

NextSmall == PriceAsks \/ PriceBids

SpecSmall == InitSmall /\ [][NextSmall]_vars

\* A rounded value above 0.
DecPositive(x) == DecLt(<<0, 0>>, x)

\* C28: given order books whose prices and quantities are all positive,
\* every level of the asks and of the bids returned has price > 0 and
\* amount > 0 after the rounding to 8 decimals.
C28_RoundedLevelsPositive ==
    PositiveBooks(pLegsData) =>
        /\ pAsks.called =>
              \A j \in 1..Len(pAsks.levels) :
                  DecPositive(pAsks.levels[j].price) /\ DecPositive(pAsks.levels[j].amount)
        /\ pBids.called =>
              \A j \in 1..Len(pBids.levels) :
                  DecPositive(pBids.levels[j].price) /\ DecPositive(pBids.levels[j].amount)

\* What holds of C28: before the rounding, the price and the amount of
\* every emitted ask are positive.
C28_PositiveBeforeRounding ==
    (PositiveBooks(pLegsData) /\ pAsks.called) =>
        \A k \in 1..Len(pAsks.trace) :
            pAsks.trace[k].emit =>
                /\ RLt(Zero, pAsks.trace[k].chain_price)
                /\ RLt(Zero, pAsks.trace[k].current_amount)

\* An ask was emitted whose amount is positive and rounds to 0.
C28_RoundsToZero ==
    /\ PositiveBooks(pLegsData)
    /\ pAsks.called
    /\ \E k \in 1..Len(pAsks.trace) :
          /\ pAsks.trace[k].emit
          /\ RLt(Zero, pAsks.trace[k].current_amount)
          /\ Round8(pAsks.trace[k].current_amount) = <<0, 0>>
    /\ \E j \in 1..Len(pAsks.levels) : pAsks.levels[j].amount = <<0, 0>>

-----------------------------------------------------------------------------
(* What a request leaves alone.                                            *)

\* C29: a create_synthetic_orderbook request, the consumption of levels
\* and both pricers included, leaves the commission-rate table, the
\* caller's leg list and every fetched order book unchanged: the table
\* keeps its initial rates, the leg list is the same from the call to the
\* return, and what a fetch gave stays as it was given until the return.
C29_RequestLeavesInputsUnchanged ==
    /\ [](commission_bps = InitCommissionBps)
    /\ [][(pc # "idle" /\ pc' # "idle") => legs' = legs]_vars
    /\ [][pc' # "idle" =>
             \A i \in DOMAIN fetch :
                 fetch[i] # Pending =>
                    (i \in DOMAIN fetch' /\ fetch'[i] = fetch[i])]_vars

\* A request has priced the books of its two or more legs into asks and
\* bids, and its legs and books are the ones it was called with and given.
C29_Witness ==
    /\ pc = "done"
    /\ result.called /\ result.raised = ""
    /\ result.response.success
    /\ result.response.asks # <<>>
    /\ result.response.bids # <<>>
    /\ commission_bps = InitCommissionBps
    /\ Len(legs) = 2
    /\ \A i \in 1..Len(legs) :
          /\ fetch[i].kind = "book"
          /\ fetch[i].book = get_orderbook(legs[i].exchange, legs[i].symbol)

-----------------------------------------------------------------------------
(* POST /api/synthetics/orderbook (app/api/synthetics.py).  FastAPI builds *)
(* the SyntheticOrderbookRequest from the body and answers 422 itself when *)
(* the body does not fit the model; otherwise the route function runs.     *)
(* The bodies are the leg lists of the requests above with a depth of      *)
(* 0 .. MaxDepth, max_depth or max_depth + 1.                              *)

\* LegConfig: exchange and side are literals, symbol is required.
LegConfig(leg) ==
    /\ HasKey(leg, "exchange") /\ HasKey(leg, "symbol") /\ HasKey(leg, "side")
    /\ leg.exchange \in {"binance", "cointr", "whitebit", "okx"}
    /\ leg.side \in {"buy", "sell"}

\* SyntheticOrderbookRequest: 2 to 6 legs, depth from 1 to 100.
SyntheticOrderbookRequest(body) ==
    /\ Len(body.legs) >= 2 /\ Len(body.legs) <= 6
    /\ \A i \in 1..Len(body.legs) : LegConfig(body.legs[i])
    /\ body.depth >= 1 /\ body.depth <= 100

\* What asyncio.gather may hold for the legs: per leg the book of its
\* service, None, or an exception.
GatheredFor(ls) ==
    [1..Len(ls) ->  {"book", "none", "exception"}]

Gathered(ls, outs) ==
    [i \in 1..Len(ls) |->
        IF outs[i] = "exception" THEN ExceptionValue
        ELSE fetch_leg_orderbook(ls[i].exchange, ls[i].symbol, outs[i])]

\* synthetics_service.create_synthetic_orderbook(legs, depth) as the route
\* function sees it: a response, or an exception.
ServiceResult(ls, dpt, outs) ==
    IF ~validate_legs(ls).ok
        THEN [raised |-> "", response |-> ValidationFailure(validate_legs(ls).msg)]
    ELSE BuildResult(ls, Gathered(ls, outs), ClampDepth(dpt))

\* Mutant of RouteAnswer: an exception is answered with an empty result.
RouteAnswer_SwallowsExceptions(svc) ==
    IF svc.raised # ""
        THEN [handled |-> TRUE, status |-> 200, body |-> svc, service |-> svc]
    ELSE IF ~svc.response.success
        THEN [handled |-> TRUE, status |-> 400, detail |-> svc.response.error,
              service |-> svc]
    ELSE [handled |-> TRUE, status |-> 200, body |-> svc.response, service |-> svc]

\* The route function from the service's result on (lines 53-64): the
\* HTTPException of line 54 passes the `except HTTPException`, any other
\* exception becomes a 500.
RouteAnswer(svc) ==
    IF svc.raised # ""
        THEN [handled |-> TRUE, status |-> 500,
              detail |-> <<"Error creating synthetic orderbook: ", svc.raised>>,
              service |-> svc]
    ELSE IF ~svc.response.success
        THEN [handled |-> TRUE, status |-> 400, detail |-> svc.response.error,
              service |-> svc]
    ELSE [handled |-> TRUE, status |-> 200, body |-> svc.response, service |-> svc]

\* The answer FastAPI gives to a body that does not fit the model.
Unprocessable ==
    [handled |-> FALSE, status |-> 422, service |-> NotCalled]

EndpointBodies ==
    [legs : {ChainLegs(n, x1) : n \in 0..MaxInputLegs, x1 \in {"binance", "okx"}}
               \cup {<<FillerLeg, v>> : v \in LegVariants},
     depth : (0..MaxDepth) \cup {max_depth, max_depth + 1}]

InitEndpoint ==
    /\ OrchIdle /\ ValIdle /\ ConIdle /\ PriIdle
    /\ SymIdle /\ DerIdle /\ FacIdle /\ TwoIdle
    /\ eRequest \in EndpointBodies
    /\ eResponse = NotCalled

EndUnchanged ==
    UNCHANGED <<eRequest, orchVars, valVars, conVars, priVars, symVars, derVars,
                facVars, requests>>

\* The body is posted to the endpoint and answered.
Post ==
    /\ ~eResponse.called
    /\ IF ~SyntheticOrderbookRequest(eRequest)
          THEN eResponse' = [called |-> TRUE] @@ Unprocessable
       ELSE \E outs \in GatheredFor(eRequest.legs) :
               eResponse' = [called |-> TRUE] @@
                   RouteAnswer(ServiceResult(eRequest.legs, eRequest.depth, outs))
    /\ EndUnchanged

\* The route function is called with a request object holding the legs
\* and the depth as they are (every leg a LegConfig).
Handle ==
    /\ ~eResponse.called
    /\ \A i \in 1..Len(eRequest.legs) : LegConfig(eRequest.legs[i])
    /\ IF ~validate_legs(eRequest.legs).ok
          THEN eResponse' = [called |-> TRUE] @@
                   RouteAnswer(ServiceResult(eRequest.legs, eRequest.depth, <<>>))
       ELSE \E outs \in GatheredFor(eRequest.legs) :
               eResponse' = [called |-> TRUE] @@
                   RouteAnswer(ServiceResult(eRequest.legs, eRequest.depth, outs))
    /\ EndUnchanged

NextEndpoint == Post \/ Handle

SpecEndpoint == InitEndpoint /\ [][NextEndpoint]_vars

\* C30: the endpoint answers 200 with the result as body only when the
\* service gave a result with success = true; a result with success =
\* false becomes a 400 carrying its error message, an exception raised
\* while the order book is built becomes a 500, and a request the service
\* holds invalid (a single leg, for one) is never answered with 200.
C30_OnlySuccessIsAnswered200 ==
    eResponse.called =>
        /\ eResponse.status = 200 <=>
              /\ eResponse.handled
              /\ eResponse.service.raised = ""
              /\ eResponse.service.response.success
        /\ eResponse.status = 200 => eResponse.body = eResponse.service.response
        /\ eResponse.handled =>
              /\ eResponse.service.raised # "" => eResponse.status = 500
              /\ (eResponse.service.raised = "" /\ ~eResponse.service.response.success) =>
                    /\ eResponse.status = 400
                    /\ eResponse.detail = eResponse.service.response.error
                    /\ eResponse.detail = validate_legs(eRequest.legs).msg
        /\ ~validate_legs(eRequest.legs).ok => eResponse.status # 200
        /\ Len(eRequest.legs) = 1 => eResponse.status \in {400, 422}

\* A posted request whose order book could not be built (an OKX first
\* leg makes the ask pricer raise) was answered 500.
C30_Witness ==
    /\ eResponse.called
    /\ SyntheticOrderbookRequest(eRequest)
    /\ eResponse.handled
    /\ eResponse.service.raised = "TypeError"
    /\ eResponse.status = 500

\* A single leg handed to the route function was answered 400 with the
\* service's message.
C30_WitnessSingleLeg ==
    /\ eResponse.called
    /\ Len(eRequest.legs) = 1
    /\ eResponse.status = 400
    /\ eResponse.detail = <<"At least 2 legs required">>

\* A single leg posted was answered 422 before the route function ran.
C30_WitnessUnprocessable ==
    /\ eResponse.called
    /\ Len(eRequest.legs) = 1
    /\ eResponse.status = 422

\* A request answered 200 with asks and bids.
C30_WitnessSuccess ==
    /\ eResponse.called
    /\ eResponse.status = 200
    /\ eResponse.body.success
    /\ eResponse.body.asks # <<>>
    /\ eResponse.body.bids # <<>>

=============================================================================
